---- MODULE Spec2Model ----
(***************************************************************************)
(* Activity index engine of the indexer                                    *)
(* (packages/indexer/src/elasticsearch/indexes/activities/index.ts):       *)
(* the retrying executor _search, the cursor-paginated search and the      *)
(* bulk writers save / deleteActivitiesById, over a document store that    *)
(* is modelled as a set of documents keyed by id.                          *)
(*                                                                         *)
(* Strings whose characters matter (ids, sort values, continuations) are   *)
(* sequences of one-character strings, so that join and split on "_" are   *)
(* computed as the code computes them.                                     *)
(***************************************************************************)
EXTENDS Integers, Sequences, FiniteSets, TLC

VARIABLES
  \* ---- _search, one call followed attempt by attempt
  pc,            \* "call": an attempt is pending; "returned" | "threw": the call ended
  retries,       \* the retries argument of the pending (recursive) call
  debug,         \* the debug argument
  attempts,      \* outcome of every store call made so far (NoError = success)
  thrown,        \* the error the call rejected with, NoError while there is none
  logs,          \* messages handed to the logger, in order
  \* ---- the document store and the calls made against it
  store,         \* set of ActivityDocument records
  params,        \* params of the pagination session / of the last search call
  continuation,  \* continuation returned by the last search call of the session
  seen,          \* ids returned so far by the session, in order
  calls,         \* number of search calls of the session that returned
  done,          \* the session got a null continuation
  last,          \* observation of the last search call
  wrote,         \* observation of the last save / deleteActivitiesById call
  alive,         \* ids stored and matching the filter ever since the session began
  keyOf,         \* per id: 0 never stored, t its only sort value so far, -1 it changed
  writes,        \* number of save / delete calls made during the session
  \* ---- the propagation functions
  indexed,       \* the indexed activities as a bag: how many documents of each kind
  prop,          \* observation of the last propagation call
  updates,       \* scripted updates that run at the same time on one document
  \* ---- initIndex
  indices,       \* the physical generations the store holds
  jobs,          \* backfill jobs enqueued so far
  clock,         \* Date.now()
  inits,         \* per caller: how far its initIndex call has come
  \* ---- the queue jobs
  worker         \* what the job at hand reads and writes, and its runs

vars == <<pc, retries, debug, attempts, thrown, logs, store, params, continuation,
          seen, calls, done, last,
          wrote, alive, keyOf, writes, indexed, prop, updates, indices, jobs, clock,
          inits, worker>>

execVars == <<pc, retries, debug, attempts, thrown, logs>>
storeVars ==
  <<store, params, continuation, seen, calls, done, last, wrote, alive, keyOf, writes>>
propVars == <<indexed, prop, updates>>
lifeVars == <<indices, jobs, clock, inits>>
jobVars == <<worker>>

(***************************************************************************)
(* Errors.  An error is what the catch blocks read of it: the message, the *)
(* transport's aborted flag (meta.meta.aborted) and the type of the cause  *)
(* in the response body (meta.body.error.caused_by.type).                  *)
(***************************************************************************)
NoError == [message |-> "", aborted |-> FALSE, causedBy |-> ""]

AbortedError ==
  [message |-> "Request aborted", aborted |-> TRUE, causedBy |-> ""]

NodeNotConnectedError ==
  [message |-> "search_phase_execution_exception", aborted |-> FALSE,
   causedBy |-> "node_not_connected_exception"]

FatalQueryError ==
  [message |-> "search_phase_execution_exception", aborted |-> FALSE,
   causedBy |-> "query_shard_exception"]

\* what the store may answer to one search request, besides a response
StoreErrors == {AbortedError, NodeNotConnectedError, FatalQueryError}

CouldNotPerformSearch ==
  [message |-> "Could not perform search.", aborted |-> FALSE, causedBy |-> ""]

\* index.ts:589-591
retryableError(error) ==
  error.aborted \/ error.causedBy = "node_not_connected_exception"

\* the bound of `if (retries <= 3)`
MaxRetries == 3

(***************************************************************************)
(* The catch block of _search for one failed attempt: what the call does   *)
(* next and what it logs.                                                  *)
(***************************************************************************)
RethrowOnExhaustion(error, r) ==
  IF retryableError(error)
    THEN IF r <= MaxRetries
           THEN [do |-> "retry", retries |-> r + 1, error |-> NoError,
                 logs |-> <<"Retrying...">>]
           ELSE [do |-> "throw", retries |-> r, error |-> error,
                 logs |-> <<"Retrying...", "Max retries reached.">>]
    ELSE [do |-> "throw", retries |-> r, error |-> error,
          logs |-> <<"Unexpected error.">>]

RetryEveryError(error, r) ==
  IF r <= MaxRetries
    THEN [do |-> "retry", retries |-> r + 1, error |-> NoError,
          logs |-> <<"Retrying...">>]
    ELSE [do |-> "throw", retries |-> r, error |-> CouldNotPerformSearch,
          logs |-> <<"Retrying...", "Max retries reached.">>]

GiveUpAfterThree(error, r) ==
  IF retryableError(error)
    THEN IF r < MaxRetries
           THEN [do |-> "retry", retries |-> r + 1, error |-> NoError,
                 logs |-> <<"Retrying...">>]
           ELSE [do |-> "throw", retries |-> r, error |-> CouldNotPerformSearch,
                 logs |-> <<"Retrying...", "Max retries reached.">>]
    ELSE [do |-> "throw", retries |-> r, error |-> error,
          logs |-> <<"Unexpected error.">>]

SearchCatch(error, r) ==
  IF retryableError(error)
    THEN IF r <= MaxRetries
           THEN [do |-> "retry", retries |-> r + 1, error |-> NoError,
                 logs |-> <<"Retrying...">>]
           ELSE [do |-> "throw", retries |-> r, error |-> CouldNotPerformSearch,
                 logs |-> <<"Retrying...", "Max retries reached.">>]
    ELSE [do |-> "throw", retries |-> r, error |-> error,
          logs |-> <<"Unexpected error.">>]

\* the try block's log after a response (index.ts:573-585)
SearchInfoLog(r, dbg) == IF r > 0 \/ dbg THEN <<"_search">> ELSE <<>>

(***************************************************************************)
(* _search, attempt by attempt.  Every attempt asks the store once; the    *)
(* store answers with a response or with one of StoreErrors.               *)
(***************************************************************************)
ExecInit ==
  /\ pc = "call"
  /\ retries = 0
  /\ debug \in BOOLEAN
  /\ attempts = <<>>
  /\ thrown = NoError
  /\ logs = <<>>

\* the store answers: _search returns the response
AttemptReturns ==
  /\ pc = "call"
  /\ attempts' = Append(attempts, NoError)
  /\ logs' = logs \o SearchInfoLog(retries, debug)
  /\ pc' = "returned"
  /\ UNCHANGED <<retries, debug, thrown>>

\* the store call throws: the catch block retries or rejects
AttemptThrows ==
  /\ pc = "call"
  /\ \E error \in StoreErrors :
       LET c == SearchCatch(error, retries) IN
         /\ attempts' = Append(attempts, error)
         /\ logs' = logs \o c.logs
         /\ retries' = c.retries
         /\ thrown' = c.error
         /\ pc' = IF c.do = "retry" THEN "call" ELSE "threw"
  /\ UNCHANGED debug

ExecNext ==
  \/ AttemptReturns /\ UNCHANGED <<storeVars, propVars, lifeVars, jobVars>>
  \/ AttemptThrows /\ UNCHANGED <<storeVars, propVars, lifeVars, jobVars>>

(***************************************************************************)
(* Strings as sequences of characters.                                     *)
(***************************************************************************)
Digits == <<"0", "1", "2", "3", "4", "5", "6", "7", "8", "9">>

\* the characters in use, in code-unit order (the order of a keyword sort)
Alphabet == <<"#">> \o Digits \o <<"_", "a", "b", "z">>

CharRank(c) == CHOOSE i \in 1..Len(Alphabet) : Alphabet[i] = c

RECURSIVE StrLess(_, _)
StrLess(s, t) ==
  IF t = <<>> THEN FALSE
  ELSE IF s = <<>> THEN TRUE
  ELSE IF Head(s) = Head(t) THEN StrLess(Tail(s), Tail(t))
  ELSE CharRank(Head(s)) < CharRank(Head(t))

\* String(n) of a non-negative integer, as Array.prototype.join applies it
RECURSIVE ToStr(_)
ToStr(n) ==
  IF n < 10 THEN <<Digits[n + 1]>>
  ELSE ToStr(n \div 10) \o <<Digits[(n % 10) + 1]>>

IsDigit(c) == \E i \in 1..10 : Digits[i] = c

\* the store's reading of a date sort value sent as a string; -1: not a number
RECURSIVE ParseAcc(_, _)
ParseAcc(s, acc) ==
  IF s = <<>> THEN acc
  ELSE IF ~IsDigit(Head(s)) THEN -1
  ELSE ParseAcc(Tail(s), acc * 10 + (CharRank(Head(s)) - 2))

ParseInt(s) == IF s = <<>> THEN -1 ELSE ParseAcc(s, 0)

\* sort.join("_") (index.ts:526)
RECURSIVE Join(_)
Join(parts) ==
  IF parts = <<>> THEN <<>>
  ELSE IF Len(parts) = 1 THEN parts[1]
  ELSE parts[1] \o <<"_">> \o Join(Tail(parts))

\* _.split(s, "_") (index.ts:489)
RECURSIVE SplitAcc(_, _)
SplitAcc(s, cur) ==
  IF s = <<>> THEN <<cur>>
  ELSE IF Head(s) = "_" THEN <<cur>> \o SplitAcc(Tail(s), <<>>)
  ELSE SplitAcc(Tail(s), Append(cur, Head(s)))

Split(s) == SplitAcc(s, <<>>)

(***************************************************************************)
(* Optional values: <<>> is null / undefined, <<v>> is the value v.        *)
(***************************************************************************)
Null == <<>>

Some(v) == <<v>>

\* JavaScript truthiness of an optional string: null and "" are falsy
Truthy(opt) == opt # Null /\ opt[1] # <<>>

(***************************************************************************)
(* The continuation codec, @/common/utils (not among the sources): an      *)
(* opaque encoding of a string, here a marker character before the text.   *)
(* Decoding gives the sequence of decoded components, one for a string     *)
(* that was encoded whole, and fails on anything that is no encoding.      *)
(***************************************************************************)
MalformedContinuation ==
  [message |-> "MalformedContinuation", aborted |-> FALSE, causedBy |-> ""]

buildContinuation(c) == <<"#">> \o c

splitContinuation(c) ==
  IF c # <<>> /\ Head(c) = "#"
    THEN [error |-> NoError, parts |-> <<Tail(c)>>]
    ELSE [error |-> MalformedContinuation, parts |-> <<>>]

(***************************************************************************)
(* The document store.  A document is the part of ActivityDocument that    *)
(* search filters and sorts on; the store is a set of documents and the    *)
(* bulk operations address them by id.                                     *)
(***************************************************************************)
\* the store's default page size when a request names none
DefaultSize == 10

\* params.limit when the caller gave none
NoLimit == -1

SearchAfterError ==
  [message |-> "search_phase_execution_exception", aborted |-> FALSE,
   causedBy |-> "illegal_argument_exception"]

\* a hit's sort value for one sort field, as join("_") prints it
SortValue(d, field) == IF field = "id" THEN d.id ELSE ToStr(d[field])

SortTuple(d, sort) == [i \in 1..Len(sort) |-> SortValue(d, sort[i])]

\* order: "desc" on one field: a comes strictly before b
FieldBefore(field, a, b) ==
  IF field = "id" THEN StrLess(b, a) ELSE ParseInt(a) > ParseInt(b)

RECURSIVE TupleBefore(_, _, _)
TupleBefore(sort, a, b) ==
  IF sort = <<>> THEN FALSE
  ELSE IF FieldBefore(Head(sort), Head(a), Head(b)) THEN TRUE
  ELSE IF FieldBefore(Head(sort), Head(b), Head(a)) THEN FALSE
  ELSE TupleBefore(Tail(sort), Tail(a), Tail(b))

Rank(tie, id) == CHOOSE i \in 1..Len(tie) : tie[i] = id

\* documents equal on every sort field come in the store's own order, tie
DocBefore(d, e, sort, tie) ==
  \/ TupleBefore(sort, SortTuple(d, sort), SortTuple(e, sort))
  \/ /\ ~TupleBefore(sort, SortTuple(e, sort), SortTuple(d, sort))
     /\ Rank(tie, d.id) < Rank(tie, e.id)

RECURSIVE Sorted(_, _, _)
Sorted(S, sort, tie) ==
  IF S = {} THEN <<>>
  ELSE LET d == CHOOSE d \in S : \A e \in S \ {d} : ~DocBefore(e, d, sort, tie)
       IN <<d>> \o Sorted(S \ {d}, sort, tie)

Satisfies(d, clause) == d[clause.field] \in clause.values

\* search_after must give one value per sort field, dates as numbers
ValidSearchAfter(sort, searchAfter) ==
  \/ searchAfter = <<>>
  \/ /\ Len(searchAfter) = Len(sort)
     /\ \A i \in 1..Len(sort) : sort[i] # "id" => ParseInt(searchAfter[i]) >= 0

\* the store's answer to one request: the error it rejects it with, or the hits
StoreSearch(req, tie) ==
  IF ~ValidSearchAfter(req.sort, req.search_after)
    THEN [error |-> SearchAfterError, hits |-> <<>>]
    ELSE
      LET S == {d \in store :
                  /\ \A i \in 1..Len(req.query) : Satisfies(d, req.query[i])
                  /\ \/ req.search_after = <<>>
                     \/ TupleBefore(req.sort, req.search_after, SortTuple(d, req.sort))}
          all == Sorted(S, req.sort, tie)
          size == IF req.size = NoLimit THEN DefaultSize ELSE req.size
      IN [error |-> NoError,
          hits |-> SubSeq(all, 1, IF Len(all) < size THEN Len(all) ELSE size)]

(***************************************************************************)
(* _search as one call: outcomes are the failures the store injects into   *)
(* the successive attempts (none once the sequence is used up).            *)
(***************************************************************************)
RECURSIVE _search(_, _, _, _)
_search(req, r, outcomes, tie) ==
  LET injected == IF outcomes = <<>> THEN NoError ELSE Head(outcomes)
      resp == StoreSearch(req, tie)
      error == IF injected # NoError THEN injected ELSE resp.error
  IN IF error = NoError
       THEN [error |-> NoError, hits |-> resp.hits, queries |-> 1]
       ELSE LET c == SearchCatch(error, r) IN
              IF c.do = "retry"
                THEN LET n == _search(req, c.retries,
                                      IF outcomes = <<>> THEN <<>> ELSE Tail(outcomes),
                                      tie)
                     IN [n EXCEPT !.queries = @ + 1]
                ELSE [error |-> c.error, hits |-> <<>>, queries |-> 1]

(***************************************************************************)
(* search (index.ts:378-551)                                               *)
(***************************************************************************)
\* index.ts:399-401; a filter that is absent or empty adds no clause (the
\* clauses of index.ts:403-481, on fields the documents here do not carry,
\* are added the same way)
esQuery(p) ==
  IF p.types # {} THEN <<[field |-> "type", values |-> p.types]>> ELSE <<>>

\* index.ts:483-491; the decoding error, if any, is thrown before the try block
DecodeAlways(p) ==
  IF Truthy(p.continuation)
    THEN splitContinuation(p.continuation[1])
    ELSE [error |-> NoError, parts |-> <<>>]

DecodeContinuation(p) ==
  IF Truthy(p.continuation) /\ ~p.continuationAsInt
    THEN splitContinuation(p.continuation[1])
    ELSE [error |-> NoError, parts |-> <<>>]

SearchAfterFirstOnly(p, dec) ==
  IF Truthy(p.continuation)
    THEN IF p.continuationAsInt
           THEN <<p.continuation[1]>>
           ELSE <<Split(dec.parts[1])[1]>>
    ELSE <<>>

searchAfterOf(p, dec) ==
  IF Truthy(p.continuation)
    THEN IF p.continuationAsInt
           THEN <<p.continuation[1]>>
           ELSE Split(dec.parts[1])
    ELSE <<>>

\* index.ts:493-504
SortWithoutTieBreak(p, searchAfter) ==
  <<IF p.sortBy = "timestamp" THEN "timestamp" ELSE "createdAt">>

SortTieBreakInEveryMode(p, searchAfter) ==
  <<IF p.sortBy = "timestamp" THEN "timestamp" ELSE "createdAt", "id">>

SortAlwaysTieBreak(p, searchAfter) ==
  <<IF p.sortBy = "timestamp" THEN "timestamp" ELSE "createdAt">>
    \o (IF ~p.continuationAsInt THEN <<"id">> ELSE <<>>)

esSort(p, searchAfter) ==
  <<IF p.sortBy = "timestamp" THEN "timestamp" ELSE "createdAt">>
    \o (IF Len(searchAfter) # 1 /\ ~p.continuationAsInt THEN <<"id">> ELSE <<>>)

\* index.ts:520-534
ContinuationWheneverHits(p, hits, sort) ==
  IF Len(hits) > 0
    THEN LET lastResultSortValue == Join(SortTuple(hits[Len(hits)], sort))
         IN IF p.continuationAsInt
              THEN Some(lastResultSortValue)
              ELSE Some(buildContinuation(lastResultSortValue))
    ELSE Null

continuationOf(p, hits, sort) ==
  IF Len(hits) = p.limit /\ Len(hits) > 0
    THEN LET lastResultSortValue == Join(SortTuple(hits[Len(hits)], sort))
         IN IF p.continuationAsInt
              THEN Some(lastResultSortValue)
              ELSE Some(buildContinuation(lastResultSortValue))
    ELSE Null

search(p, outcomes, tie) ==
  LET dec == DecodeContinuation(p) IN
    IF dec.error # NoError
      THEN [error |-> dec.error, activities |-> <<>>, continuation |-> Null,
            sort |-> <<>>, searchAfter |-> <<>>, queries |-> 0]
      ELSE
        LET searchAfter == searchAfterOf(p, dec)
            sort == esSort(p, searchAfter)
            esResult == _search([query |-> esQuery(p), sort |-> sort, size |-> p.limit,
                                 search_after |-> searchAfter], 0, outcomes, tie)
        IN IF esResult.error # NoError
             THEN [error |-> esResult.error, activities |-> <<>>, continuation |-> Null,
                   sort |-> sort, searchAfter |-> searchAfter,
                   queries |-> esResult.queries]
             ELSE [error |-> NoError, activities |-> esResult.hits,
                   continuation |-> continuationOf(p, esResult.hits, sort),
                   sort |-> sort, searchAfter |-> searchAfter,
                   queries |-> esResult.queries]

(***************************************************************************)
(* save and deleteActivitiesById: one bulk request each.                   *)
(***************************************************************************)
\* the store applies the operations of a bulk request in order; an item
\* fails when the store rejects it (failing) or when a create finds its id
RECURSIVE BulkKeepingOld(_, _, _, _)
BulkKeepingOld(S, ops, i, failing) ==
  IF i > Len(ops) THEN [store |-> S, failed |-> {}]
  ELSE
    LET op == ops[i]
        exists == \E d \in S : d.id = op.id
        fails == i \in failing \/ (op.action = "create" /\ exists)
        S2 == IF fails THEN S
              ELSE IF op.action = "delete" THEN {d \in S : d.id # op.id}
              ELSE S \cup {op.doc}
        rest == BulkKeepingOld(S2, ops, i + 1, failing)
    IN [store |-> rest.store,
        failed |-> rest.failed \cup (IF fails THEN {i} ELSE {})]

RECURSIVE BulkAbsentFails(_, _, _, _)
BulkAbsentFails(S, ops, i, failing) ==
  IF i > Len(ops) THEN [store |-> S, failed |-> {}]
  ELSE
    LET op == ops[i]
        exists == \E d \in S : d.id = op.id
        fails == \/ i \in failing
                 \/ op.action = "create" /\ exists
                 \/ op.action = "delete" /\ ~exists
        S2 == IF fails THEN S
              ELSE IF op.action = "delete" THEN {d \in S : d.id # op.id}
              ELSE {d \in S : d.id # op.id} \cup {op.doc}
        rest == BulkAbsentFails(S2, ops, i + 1, failing)
    IN [store |-> rest.store,
        failed |-> rest.failed \cup (IF fails THEN {i} ELSE {})]

RECURSIVE Bulk(_, _, _, _)
Bulk(S, ops, i, failing) ==
  IF i > Len(ops) THEN [store |-> S, failed |-> {}]
  ELSE
    LET op == ops[i]
        exists == \E d \in S : d.id = op.id
        fails == i \in failing \/ (op.action = "create" /\ exists)
        S2 == IF fails THEN S
              ELSE IF op.action = "delete" THEN {d \in S : d.id # op.id}
              ELSE {d \in S : d.id # op.id} \cup {op.doc}
        rest == Bulk(S2, ops, i + 1, failing)
    IN [store |-> rest.store,
        failed |-> rest.failed \cup (IF fails THEN {i} ELSE {})]

\* index.ts:29-74.  now: the value of new Date(); injected: the error the
\* bulk request throws, if any; failing: the items the store rejects
SaveThrowingOnErrors(activities, upsert, overrideIndexedAt, now, injected, failing) ==
  LET stamped == [i \in 1..Len(activities) |->
                    IF overrideIndexedAt
                      THEN [activities[i] EXCEPT !.indexedAt = now]
                      ELSE activities[i]]
      ops == [i \in 1..Len(stamped) |->
                [action |-> IF upsert THEN "index" ELSE "create",
                 id |-> stamped[i].id, doc |-> stamped[i]]]
      response == Bulk(store, ops, 1, failing)
  IN IF injected # NoError
       THEN [error |-> injected, store |-> store, activities |-> stamped,
             failed |-> {}, bulks |-> 1,
             logs |-> <<"error saving activities">>]
       ELSE [error |-> IF response.failed # {} THEN FatalQueryError ELSE NoError,
             store |-> response.store, activities |-> stamped,
             failed |-> response.failed, bulks |-> 1,
             logs |-> IF response.failed # {}
                        THEN <<"save activities errors">> ELSE <<>>]

save(activities, upsert, overrideIndexedAt, now, injected, failing) ==
  LET stamped == [i \in 1..Len(activities) |->
                    IF overrideIndexedAt
                      THEN [activities[i] EXCEPT !.indexedAt = now]
                      ELSE activities[i]]
      ops == [i \in 1..Len(stamped) |->
                [action |-> IF upsert THEN "index" ELSE "create",
                 id |-> stamped[i].id, doc |-> stamped[i]]]
      response == Bulk(store, ops, 1, failing)
  IN IF injected # NoError
       THEN [error |-> injected, store |-> store, activities |-> stamped,
             failed |-> {}, bulks |-> 1,
             logs |-> <<"error saving activities">>]
       ELSE [error |-> NoError, store |-> response.store, activities |-> stamped,
             failed |-> response.failed, bulks |-> 1,
             logs |-> IF response.failed # {} /\ upsert
                        THEN <<"save activities errors">> ELSE <<>>]

\* index.ts:344-376
deleteActivitiesById(ids, injected, failing) ==
  LET ops == [i \in 1..Len(ids) |-> [action |-> "delete", id |-> ids[i]]]
      response == Bulk(store, ops, 1, failing)
  IN IF injected # NoError
       THEN [error |-> injected, store |-> store, failed |-> {}, bulks |-> 1,
             logs |-> <<"delete-by-id-error">>]
       ELSE [error |-> NoError, store |-> response.store,
             failed |-> response.failed, bulks |-> 1,
             logs |-> IF response.failed # {}
                        THEN <<"delete-by-id-conflicts">> ELSE <<>>]

(***************************************************************************)
(* Bounds and the values the calls are made with.                          *)
(***************************************************************************)
MaxTime == 2
MaxLimit == 2
MaxCalls == 4
MaxConcCalls == 3
MaxWrites == 1
MaxNow == 1
MaxBatch == 2

Times == 1..MaxTime
Types == {"sale", "mint"}
Ids == {<<"a">>, <<"b">>, <<"a", "_", "b">>}
PlainIds == {<<"a">>, <<"b">>}

\* the documents an id may stand for in a session with params p: the time
\* field that p does not sort on is left at 1
FieldsOf(p) ==
  {f \in [type : Types, createdAt : Times, timestamp : Times] :
     IF p.sortBy = "timestamp" THEN f.createdAt = 1 ELSE f.timestamp = 1}

MkDoc(id, f) ==
  [id |-> id, type |-> f.type, createdAt |-> f.createdAt,
   timestamp |-> f.timestamp, indexedAt |-> 0]

DocsOf(ids, p) == {MkDoc(i, f) : i \in ids, f \in FieldsOf(p)}

\* the stores with at most one document per id
StoresOf(ids, p) ==
  UNION {{{MkDoc(i, f[i]) : i \in I} : f \in [I -> FieldsOf(p)]} : I \in SUBSET ids}

\* the orders in which the store may return documents that tie on the sort;
\* one order is enough when the sort ends with the id
IdOrders ==
  {t \in [1..Cardinality(Ids) -> Ids] : \A i, j \in DOMAIN t : t[i] = t[j] => i = j}

TieOrders(p) ==
  LET dec == DecodeContinuation(p) IN
    IF dec.error = NoError /\ Len(esSort(p, searchAfterOf(p, dec))) = 1
      THEN IdOrders
      ELSE {CHOOSE t \in IdOrders : TRUE}

\* the store answers at once, after one aborted attempt, with a fatal error,
\* or with a transient error on every attempt
OutcomeRuns ==
  {<<>>, <<AbortedError>>, <<FatalQueryError>>,
   <<AbortedError, NodeNotConnectedError, AbortedError, NodeNotConnectedError,
     AbortedError>>}

SessionParams ==
  [types : {{}, {"sale"}}, sortBy : {"timestamp", "createdAt"},
   limit : {NoLimit} \cup 0..MaxLimit, continuationAsInt : BOOLEAN,
   continuation : {Null}]

\* continuations a caller may hand in: none, the empty string, encoded sort
\* tuples of two, one and three components, an encoded tuple whose date is no
\* number, a bare number and a bare word
Cursors ==
  {Null, Some(<<>>),
   Some(buildContinuation(<<"1", "_", "a">>)),
   Some(buildContinuation(<<"2">>)),
   Some(buildContinuation(<<"1", "_", "a", "_", "b">>)),
   Some(buildContinuation(<<"z", "_", "a">>)),
   Some(<<"2">>), Some(<<"z">>)}

CallParams ==
  [types : {{}, {"sale"}}, sortBy : {"timestamp", "createdAt"},
   limit : {NoLimit} \cup 0..MaxLimit, continuationAsInt : BOOLEAN,
   continuation : Cursors]

Matches(d, p) == \A i \in 1..Len(esQuery(p)) : Satisfies(d, esQuery(p)[i])

SortKey(d, p) == IF p.sortBy = "timestamp" THEN d.timestamp ELSE d.createdAt

NoCall == [op |-> "none", error |-> NoError, tuple |-> <<>>]

ExecIdle ==
  /\ pc = "idle" /\ retries = 0 /\ debug = FALSE
  /\ attempts = <<>> /\ thrown = NoError /\ logs = <<>>

StoreIdle ==
  /\ store = {} /\ params = [op |-> "none"] /\ continuation = Null /\ seen = <<>>
  /\ calls = 0 /\ done = FALSE /\ last = NoCall /\ wrote = NoCall /\ alive = {}
  /\ keyOf = [i \in Ids |-> 0] /\ writes = 0

\* no propagation call and no initIndex call is made
PropIdle == indexed = <<>> /\ prop = NoCall /\ updates = <<>>

LifeIdle == indices = {} /\ jobs = 0 /\ clock = 0 /\ inits = <<>>

JobsIdle == worker = <<>>

(***************************************************************************)
(* A pagination session: search is called first without a continuation     *)
(* and then with the continuation the previous call returned.              *)
(***************************************************************************)
Observe(p, r, prevTuple) ==
  [op |-> "search", params |-> p, error |-> r.error, activities |-> r.activities,
   continuation |-> r.continuation, sort |-> r.sort, searchAfter |-> r.searchAfter,
   queries |-> r.queries, resumedFrom |-> prevTuple,
   tuple |-> IF r.error # NoError THEN prevTuple
             ELSE IF r.activities = <<>> THEN <<>>
             ELSE SortTuple(r.activities[Len(r.activities)], r.sort)]

SessionInit(ids, ps) ==
  /\ params \in ps
  /\ store \in StoresOf(ids, params)
  /\ continuation = Null
  /\ seen = <<>>
  /\ calls = 0
  /\ done = FALSE
  /\ last = NoCall
  /\ wrote = NoCall
  /\ alive = {d.id : d \in {e \in store : Matches(e, params)}}
  /\ keyOf = [i \in Ids |->
                IF \E d \in store : d.id = i
                  THEN SortKey(CHOOSE d \in store : d.id = i, params) ELSE 0]
  /\ writes = 0

SearchPage(runs, cap) ==
  /\ ~done
  /\ calls < cap
  /\ \E p \in {[params EXCEPT !.continuation = continuation]} :
     \E outcomes \in runs, tie \in TieOrders(p) :
     \E r \in {search(p, outcomes, tie)} :
          /\ last' = Observe(p, r, last.tuple)
          /\ IF r.error = NoError
               THEN /\ seen' = seen \o [i \in 1..Len(r.activities) |-> r.activities[i].id]
                    /\ continuation' = r.continuation
                    /\ done' = (r.continuation = Null)
                    /\ calls' = calls + 1
               ELSE UNCHANGED <<seen, continuation, done, calls>>
  /\ UNCHANGED <<store, params, wrote, alive, keyOf, writes>>

\* one search call with whatever params the caller chose
SearchCall ==
  /\ calls = 0
  /\ \E outcomes \in OutcomeRuns, tie \in TieOrders(params) :
     \E r \in {search(params, outcomes, tie)} :
          last' = Observe(params, r, <<>>)
  /\ calls' = 1
  /\ UNCHANGED <<store, params, continuation, seen, done, wrote, alive, keyOf, writes>>

(***************************************************************************)
(* Writers.  The effect of a call on the store, and on what the session    *)
(* needs to know of the documents: which ids have matched all along and    *)
(* whether an id's sort value ever changed.                                 *)
(***************************************************************************)
Track(S) ==
  /\ store' = S
  /\ alive' = {i \in alive : \E d \in S : d.id = i /\ Matches(d, params)}
  /\ keyOf' = [i \in Ids |->
                 IF \E d \in S : d.id = i
                   THEN LET k == SortKey(CHOOSE d \in S : d.id = i, params)
                        IN IF keyOf[i] \in {0, k} THEN k ELSE -1
                   ELSE keyOf[i]]

SaveCall(activities, upsert, overrideIndexedAt, now, injected, failing, record) ==
  \E r \in {save(activities, upsert, overrideIndexedAt, now, injected, failing)} :
    /\ Track(r.store)
    /\ wrote' = IF record
                  THEN [op |-> "save", upsert |-> upsert, activities |-> r.activities,
                        error |-> r.error, failed |-> r.failed, bulks |-> r.bulks,
                        logs |-> r.logs, before |-> store,
                        injected |-> injected, failing |-> failing]
                  ELSE wrote
    /\ writes' = IF record THEN writes ELSE writes + 1
    /\ UNCHANGED <<params, continuation, seen, calls, done, last>>

DeleteCall(ids, injected, failing, record) ==
  \E r \in {deleteActivitiesById(ids, injected, failing)} :
    /\ Track(r.store)
    /\ wrote' = IF record
                  THEN [op |-> "delete", ids |-> ids, error |-> r.error,
                        failed |-> r.failed, bulks |-> r.bulks, logs |-> r.logs,
                        before |-> store, injected |-> injected, failing |-> failing]
                  ELSE wrote
    /\ writes' = IF record THEN writes ELSE writes + 1
    /\ UNCHANGED <<params, continuation, seen, calls, done, last>>

Batches(docs, n) == UNION {[1..k -> docs] : k \in 1..n}

\* the bulk request throws before the store applies it, or the store answers
\* and reports the items it rejected
BulkFaults(n) ==
  {[injected |-> AbortedError, failing |-> {}]}
    \cup {[injected |-> NoError, failing |-> F] : F \in SUBSET (1..n)}

NoFaults(n) == {[injected |-> NoError, failing |-> {}]}

Faults(faulty, n) == IF faulty THEN BulkFaults(n) ELSE NoFaults(n)

Save(docs, maxLen, faulty, record) ==
  \E activities \in Batches(docs, maxLen) :
  \E upsert, overrideIndexedAt \in BOOLEAN, now \in 1..MaxNow :
  \E f \in Faults(faulty, Len(activities)) :
    SaveCall(activities, upsert, overrideIndexedAt, now, f.injected, f.failing, record)

Delete(ids, maxLen, faulty, record) ==
  \E del \in Batches(ids, maxLen) :
  \E f \in Faults(faulty, Len(del)) :
    DeleteCall(del, f.injected, f.failing, record)

(***************************************************************************)
(* Specifications.                                                         *)
(***************************************************************************)
\* a pagination session over a store that neither changes nor fails
Init == JobsIdle /\ ExecIdle /\ SessionInit(Ids, SessionParams) /\ PropIdle /\ LifeIdle

Next == SearchPage({<<>>}, MaxCalls) /\ UNCHANGED <<jobVars, execVars, propVars, lifeVars>>

Spec == Init /\ [][Next]_vars

\* one call of _search, attempt by attempt
RetryInit == JobsIdle /\ ExecInit /\ StoreIdle /\ PropIdle /\ LifeIdle

SpecRetry == RetryInit /\ [][ExecNext]_vars

\* single search calls with any params, against a store that may fail
CallInit ==
  /\ JobsIdle /\ ExecIdle
  /\ params \in CallParams
  /\ store \in StoresOf(PlainIds, params)
  /\ continuation = Null /\ seen = <<>> /\ calls = 0 /\ done = FALSE
  /\ last = NoCall /\ wrote = NoCall /\ alive = {}
  /\ keyOf = [i \in Ids |-> 0] /\ writes = 0
  /\ PropIdle /\ LifeIdle

CallNext == SearchCall /\ UNCHANGED <<jobVars, execVars, propVars, lifeVars>>

SpecCall == CallInit /\ [][CallNext]_vars

\* a pagination session in the default continuation mode while save and
\* deleteActivitiesById calls change the store
ConcParams ==
  {p \in SessionParams : ~p.continuationAsInt /\ p.limit >= 1 /\ p.types # {}}

ConcInit == JobsIdle /\ ExecIdle /\ SessionInit(PlainIds, ConcParams) /\ PropIdle /\ LifeIdle

ConcSearch == SearchPage({<<>>}, MaxConcCalls) /\ UNCHANGED <<jobVars, execVars, propVars, lifeVars>>

ConcSave ==
  /\ writes < MaxWrites
  /\ Save(DocsOf(PlainIds, params), 1, FALSE, FALSE)
  /\ UNCHANGED <<jobVars, execVars, propVars, lifeVars>>

ConcDelete ==
  /\ writes < MaxWrites
  /\ Delete(PlainIds, 1, FALSE, FALSE)
  /\ UNCHANGED <<jobVars, execVars, propVars, lifeVars>>

ConcNext == ConcSearch \/ ConcSave \/ ConcDelete

SpecConc == ConcInit /\ [][ConcNext]_vars

\* one save or deleteActivitiesById call, observed, on any store that holds
\* at most one document per id; the documents differ in id, createdAt and
\* indexedAt
WriteParams ==
  {p \in SessionParams : p.sortBy = "createdAt" /\ p.types = {"sale"}
                         /\ p.limit = NoLimit /\ ~p.continuationAsInt}

WriteDocs == {d \in UNION {DocsOf(PlainIds, p) : p \in WriteParams} : d.type = "sale"}

StoredDocs == {[d EXCEPT !.indexedAt = t] : d \in WriteDocs, t \in 0..MaxNow}

WriteInit ==
  /\ JobsIdle /\ ExecIdle
  /\ params \in WriteParams
  /\ store \in {S \in SUBSET StoredDocs : \A d, e \in S : d.id = e.id => d = e}
  /\ continuation = Null /\ seen = <<>> /\ calls = 0 /\ done = FALSE
  /\ last = NoCall /\ wrote = NoCall /\ alive = {}
  /\ keyOf = [i \in Ids |-> 0] /\ writes = 0
  /\ PropIdle /\ LifeIdle

WriteSave ==
  /\ wrote.op = "none"
  /\ Save(WriteDocs, MaxBatch, TRUE, TRUE)
  /\ UNCHANGED <<jobVars, execVars, propVars, lifeVars>>

WriteDelete ==
  /\ wrote.op = "none"
  /\ Delete(PlainIds, MaxBatch, TRUE, TRUE)
  /\ UNCHANGED <<jobVars, execVars, propVars, lifeVars>>

WriteNext == WriteSave \/ WriteDelete

SpecWrites == WriteInit /\ [][WriteNext]_vars

(***************************************************************************)
(* The propagation functions (index.ts:758-1465).  An indexed activity is  *)
(* here the part of ActivityDocument that their queries and scripts read   *)
(* and write; documents that agree on it are counted, not told apart, so   *)
(* the index is a bag: a function from the kinds of document it holds to   *)
(* how many of each it holds.  Field values are whole strings.             *)
(***************************************************************************)
\* size: 1000 of every scan
ScanSize == 1000

\* the pair that the query of updateActivitiesTokenMetadata names
HardcodedContract == "0xb76fbbb30e31f2c3bdaa2466cfb1cfe39b220d06"
HardcodedTokenId == "7514"

toLowerCase(str) == IF str = "0xABC" THEN "0xabc" ELSE str

\* JavaScript truthiness of string | null: null and "" are falsy
Given(opt) == opt # Null /\ opt[1] # ""

\* the store's exists query: a field holding "" exists, a missing one does not
Exists(opt) == opt # Null

\* the store's term query on a keyword field
Term(opt, value) == opt = Some(value)

RECURSIVE SumOver(_, _)
SumOver(f, S) ==
  IF S = {} THEN 0
  ELSE LET k == CHOOSE k \in S : TRUE IN f[k] + SumOver(f, S \ {k})

BagSize(B) == SumOver(B, DOMAIN B)

Count(B, k) == IF k \in DOMAIN B THEN B[k] ELSE 0

\* the bag counting cnt[k] documents of every kind k of K, kinds without a
\* document left out
BagOf(K, cnt) == [k \in {j \in K : cnt[j] > 0} |-> cnt[k]]

\* a bool query: every must clause, no must_not clause and, when the query
\* has should clauses, as many of them as minimum_should_match asks for:
\* one when the query has neither must nor filter clauses, none otherwise
BoolQuery(hasMust, must, mustNot, should) ==
  /\ must
  /\ ~mustNot
  /\ (should = {} \/ hasMust \/ TRUE \in should)

\* one clause of the should list (index.ts:1065-1129, 1284-1327): the field
\* differs from the new value, or, for a falsy new value, the field exists
StaleClause(newValue, field) ==
  IF Given(newValue) THEN ~Term(field, newValue[1]) ELSE Exists(field)

\* index.ts:765-787
MissingCollectionQuery(call, k) ==
  BoolQuery(TRUE,
            k.contract = toLowerCase(call.contract) /\ k.tokenId = call.tokenId,
            Exists(k.cid), {})

\* index.ts:911-933
CollectionQuery(call, k) ==
  BoolQuery(TRUE,
            k.contract = toLowerCase(call.contract) /\ k.tokenId = call.tokenId,
            Term(k.cid, call.collectionId), {})

\* index.ts:1065-1158
TokenMetadataQuery(call, k) ==
  BoolQuery(TRUE,
            k.contract = HardcodedContract /\ k.tokenId = HardcodedTokenId,
            k.type = "bid",
            {StaleClause(call.name, k.tname), StaleClause(call.image, k.timage),
             StaleClause(call.media, k.tmedia)})

\* index.ts:1284-1344
CollectionMetadataQuery(call, k) ==
  /\ BoolQuery(TRUE, Term(k.cid, toLowerCase(call.collectionId)), FALSE, {})
  /\ BoolQuery(FALSE, TRUE, FALSE,
               {StaleClause(call.name, k.cname), StaleClause(call.image, k.cimage)})

PropQuery(call, k) ==
  CASE call.fn = "updateActivitiesMissingCollection" -> MissingCollectionQuery(call, k)
    [] call.fn = "updateActivitiesCollection" -> CollectionQuery(call, k)
    [] call.fn = "updateActivitiesTokenMetadata" -> TokenMetadataQuery(call, k)
    [] call.fn = "updateActivitiesCollectionMetadata" -> CollectionMetadataQuery(call, k)

\* the script of index.ts:808 and 960: a new collection object
CollectionScript(call, k) ==
  [k EXCEPT !.cid = Some(call.collectionId), !.cname = call.name, !.cimage = call.image]

\* the scripts of index.ts:1184 and 1371: a null parameter removes the
\* sub-field, any other value is written
TokenMetadataScript(call, k) ==
  [k EXCEPT !.tname = call.name, !.timage = call.image, !.tmedia = call.media]

ScriptReplacingCollection(call, k) ==
  [k EXCEPT !.cid = Null, !.cname = call.name, !.cimage = call.image]

CollectionMetadataScript(call, k) ==
  [k EXCEPT !.cname = call.name, !.cimage = call.image]

PropScript(call, k) ==
  CASE call.fn = "updateActivitiesMissingCollection" -> CollectionScript(call, k)
    [] call.fn = "updateActivitiesCollection" -> CollectionScript(call, k)
    [] call.fn = "updateActivitiesTokenMetadata" -> TokenMetadataScript(call, k)
    [] call.fn = "updateActivitiesCollectionMetadata" -> CollectionMetadataScript(call, k)

\* the documents of B that satisfy the query of the call
Hits(B, call) ==
  BagOf(DOMAIN B, [k \in DOMAIN B |-> IF PropQuery(call, k) THEN B[k] ELSE 0])

\* B after the script has run on the documents of moved
Updated(B, call, moved) ==
  LET K == DOMAIN B \cup {PropScript(call, k) : k \in DOMAIN moved}
  IN BagOf(K, [j \in K |->
                 Count(B, j) - Count(moved, j)
                   + SumOver(moved, {k \in DOMAIN moved : PropScript(call, k) = j})])

\* how a _search call ends when the store fails its attempts with outcomes,
\* one after the other, and answers once they are used up
RECURSIVE SearchAttempts(_, _)
SearchAttempts(r, outcomes) ==
  IF outcomes = <<>> THEN [error |-> NoError, queries |-> 1]
  ELSE LET c == SearchCatch(Head(outcomes), r) IN
         IF c.do = "retry"
           THEN LET n == SearchAttempts(c.retries, Tail(outcomes))
                IN [n EXCEPT !.queries = @ + 1]
           ELSE [error |-> c.error, queries |-> 1]

\* the bulk response as the code reads it: the errors flag and the status of
\* the items.  A document whose update the store rejected keeps its fields.
\* The request asks the store to filter the response (filter_path:
\* "items.*.error"); visible tells whether the errors flag is still in it.
BulkUpdateResponse(picked, failed, status, visible) ==
  [errors |-> visible /\ BagSize(failed) > 0,
   statuses |-> (IF BagSize(failed) < BagSize(picked) THEN {200} ELSE {})
                  \cup (IF BagSize(failed) > 0 THEN {status} ELSE {})]

\* index.ts:822-841 (and 974-993, 1198-1216, 1384-1405)
KeepGoingWheneverFound(response, found) == found > 0

KeepGoingErrorOrFull(response, found) ==
  \/ response.errors /\ \E s \in response.statuses : s # 400
  \/ found = ScanSize

keepGoingOf(response, found) ==
  IF response.errors
    THEN \E s \in response.statuses : s # 400
    ELSE found = ScanSize

\* the catch block, index.ts:860-898 (and 1013-1053, 1235-1273, 1426-1462)
CatchRethrowsAll(error) ==
  [error |-> error, keepGoing |-> FALSE, logs |-> <<"Unexpected error">>]

CatchSwallowsAll(error) ==
  [error |-> NoError, keepGoing |-> TRUE, logs |-> <<"Unexpected error">>]

PropagationCatch(error) ==
  IF retryableError(error)
    THEN [error |-> NoError, keepGoing |-> TRUE, logs |-> <<"Unexpected error">>]
    ELSE [error |-> error, keepGoing |-> FALSE, logs |-> <<"Unexpected error">>]

\* The body the four functions share.  env is what the store does during
\* the call: outcomes, the failures of the scan's attempts; picked, the
\* matching documents it returns; bulkError, the error the bulk request
\* throws, if any; failed, the documents whose update it rejects, with
\* status; visible, see BulkUpdateResponse.
\* the update items of the bulk request: one for every hit of the scan
\* (flatMap over the hits, index.ts:803)
BulkItems(hits) == [k \in DOMAIN hits |-> hits[k]]

Propagation(call, env) ==
  LET scan == SearchAttempts(0, env.outcomes)
      found == BagSize(env.picked)
      items == BulkItems(env.picked)
      response == BulkUpdateResponse(env.picked, env.failed, env.status, env.visible)
      moved == BagOf(DOMAIN items,
                     [k \in DOMAIN items |-> items[k] - Count(env.failed, k)])
      none == [errors |-> FALSE, statuses |-> {}]
  IN IF scan.error # NoError
       THEN LET c == PropagationCatch(scan.error) IN
              [error |-> c.error, keepGoing |-> c.keepGoing, indexed |-> indexed,
               found |-> 0, queries |-> scan.queries, bulks |-> 0, items |-> <<>>,
               response |-> none, logs |-> c.logs]
     ELSE IF found = 0
       THEN [error |-> NoError, keepGoing |-> FALSE, indexed |-> indexed,
             found |-> 0, queries |-> scan.queries, bulks |-> 0, items |-> <<>>,
             response |-> none, logs |-> <<>>]
     ELSE IF env.bulkError # NoError
       THEN LET c == PropagationCatch(env.bulkError) IN
              [error |-> c.error, keepGoing |-> c.keepGoing, indexed |-> indexed,
               found |-> found, queries |-> scan.queries, bulks |-> 1, items |-> items,
               response |-> none, logs |-> c.logs]
     ELSE [error |-> NoError, keepGoing |-> keepGoingOf(response, found),
           indexed |-> Updated(indexed, call, moved),
           found |-> found, queries |-> scan.queries, bulks |-> 1, items |-> items,
           response |-> response,
           logs |-> IF response.errors THEN <<"Errors in response">>
                    ELSE IF call.fn = "updateActivitiesCollectionMetadata"
                      THEN <<"Success">> ELSE <<>>]

\* index.ts:758-901
updateActivitiesMissingCollection(contract, tokenId, collection, env) ==
  Propagation([fn |-> "updateActivitiesMissingCollection", contract |-> contract,
               tokenId |-> tokenId, collectionId |-> collection.id,
               name |-> collection.name, image |-> collection.imageUrl,
               media |-> Null], env)

\* index.ts:903-1056
updateActivitiesCollection(contract, tokenId, newCollection, oldCollectionId, env) ==
  Propagation([fn |-> "updateActivitiesCollection", contract |-> contract,
               tokenId |-> tokenId, collectionId |-> newCollection.id,
               name |-> newCollection.name, image |-> newCollection.imageUrl,
               media |-> Null], env)

\* index.ts:1058-1276
updateActivitiesTokenMetadata(contract, tokenId, tokenData, env) ==
  Propagation([fn |-> "updateActivitiesTokenMetadata", contract |-> contract,
               tokenId |-> tokenId, collectionId |-> "",
               name |-> tokenData.name, image |-> tokenData.image,
               media |-> tokenData.media], env)

\* index.ts:1278-1465
updateActivitiesCollectionMetadata(collectionId, collectionData, env) ==
  Propagation([fn |-> "updateActivitiesCollectionMetadata", contract |-> "",
               tokenId |-> "", collectionId |-> collectionId,
               name |-> collectionData.name, image |-> collectionData.image,
               media |-> Null], env)

(***************************************************************************)
(* Calls of the propagation functions and the indexes they run against.    *)
(***************************************************************************)
Invoke(call, env) ==
  CASE call.fn = "updateActivitiesMissingCollection" ->
         updateActivitiesMissingCollection(
           call.contract, call.tokenId,
           [id |-> call.collectionId, name |-> call.name, imageUrl |-> call.image], env)
    [] call.fn = "updateActivitiesCollection" ->
         updateActivitiesCollection(
           call.contract, call.tokenId,
           [id |-> call.collectionId, name |-> call.name, imageUrl |-> call.image],
           "0xabc", env)
    [] call.fn = "updateActivitiesTokenMetadata" ->
         updateActivitiesTokenMetadata(
           call.contract, call.tokenId,
           [name |-> call.name, image |-> call.image, media |-> call.media], env)
    [] call.fn = "updateActivitiesCollectionMetadata" ->
         updateActivitiesCollectionMetadata(
           call.collectionId, [name |-> call.name, image |-> call.image], env)

\* the token a call is made for: the hardcoded one or another
TokenArgs ==
  {[contract |-> "0xABC", tokenId |-> "1"],
   [contract |-> HardcodedContract, tokenId |-> HardcodedTokenId]}

\* new values: null, the empty string, a value
NewValues == {Null, Some(""), Some("X")}

PropCalls ==
  {[fn |-> "updateActivitiesMissingCollection", contract |-> t.contract,
    tokenId |-> t.tokenId, collectionId |-> "col2", name |-> Some("X"),
    image |-> i, media |-> Null] : t \in TokenArgs, i \in {Null, Some("X")}}
  \cup
  {[fn |-> "updateActivitiesCollection", contract |-> t.contract,
    tokenId |-> t.tokenId, collectionId |-> "col2", name |-> Some("X"),
    image |-> i, media |-> Null] : t \in TokenArgs, i \in {Null, Some("X")}}
  \cup
  {[fn |-> "updateActivitiesTokenMetadata", contract |-> t.contract,
    tokenId |-> t.tokenId, collectionId |-> "", name |-> n,
    image |-> i, media |-> Null] : t \in TokenArgs, n \in NewValues, i \in {Null, Some("X")}}
  \cup
  {[fn |-> "updateActivitiesCollectionMetadata", contract |-> "",
    tokenId |-> "", collectionId |-> "0xABC", name |-> n,
    image |-> i, media |-> Null] : n \in NewValues, i \in {Null, Some("X")}}

\* the kinds of document a call may meet: the fields its function neither
\* reads nor writes are the same in all of them
Tokens ==
  {[contract |-> "0xabc", tokenId |-> "1"],
   [contract |-> HardcodedContract, tokenId |-> HardcodedTokenId]}

MkKind(t, type, c, tn, ti) ==
  [contract |-> t.contract, tokenId |-> t.tokenId, type |-> type,
   cid |-> c.cid, cname |-> c.cname, cimage |-> c.cimage,
   tname |-> tn, timage |-> ti, tmedia |-> Null]

NoCollection == [cid |-> Null, cname |-> Null, cimage |-> Null]

\* the collection of the documents that a token-metadata refresh meets
OtherCollection == [cid |-> Some("col2"), cname |-> Some("C"), cimage |-> Some("C")]

KindsFor(call) ==
  CASE call.fn = "updateActivitiesTokenMetadata" ->
         {MkKind(t, type, OtherCollection, tn, ti) :
            t \in Tokens, type \in {"sale", "bid"},
            tn \in {Null, Some("X"), Some("Y")}, ti \in {Null, Some("Y")}}
    [] call.fn = "updateActivitiesCollectionMetadata" ->
         {MkKind(t, "sale", [cid |-> Some(c), cname |-> cn, cimage |-> ci],
                 Some("T"), Some("T")) :
            t \in {[contract |-> "0xabc", tokenId |-> "1"]}, c \in {"0xabc", "col2"},
            cn \in {Null, Some("X"), Some("Y")}, ci \in {Null, Some("Y")}}
    [] OTHER ->
         {MkKind(t, "sale", c, Some("T"), Some("T")) :
            t \in Tokens,
            c \in {NoCollection,
                   [cid |-> Some("0xabc"), cname |-> Some("Y"), cimage |-> Some("Y")],
                   [cid |-> Some("col2"), cname |-> Some("X"), cimage |-> Null],
                   [cid |-> Some("col2"), cname |-> Some("X"), cimage |-> Some("X")]}}

\* the indexes: one document; or a page short of one, a full page or a page
\* and one more of documents of one kind that the call selects, alone or
\* beside one document of another kind
PageCounts == {ScanSize - 1, ScanSize, ScanSize + 1}

PropStores(call) ==
  LET K == KindsFor(call)
      M == {k \in K : PropQuery(call, k)}
      big == IF M = {} THEN {} ELSE {CHOOSE k \in M : TRUE}
      others == (IF M \ big = {} THEN {} ELSE {CHOOSE k \in M \ big : TRUE})
                  \cup (IF K \ M = {} THEN {} ELSE {CHOOSE k \in K \ M : TRUE})
  IN {[k \in {j} |-> 1] : j \in K}
     \cup {[k \in {j} |-> n] : j \in big, n \in PageCounts}
     \cup {[k \in {j, o} |-> IF k = j THEN n ELSE 1] :
             j \in big, o \in others, n \in PageCounts}

\* the sub-bags of B, restricted to the kinds K, that hold n documents
RECURSIVE Picks(_, _, _)
Picks(B, K, n) ==
  IF K = {} THEN IF n = 0 THEN {<<>>} ELSE {}
  ELSE LET k == CHOOSE k \in K : TRUE
           rest == SumOver(B, K \ {k})
           lo == IF n > rest THEN n - rest ELSE 0
           hi == IF B[k] < n THEN B[k] ELSE n
       IN UNION {{BagOf(K, [j \in K |-> IF j = k THEN c ELSE Count(f, j)]) :
                    f \in Picks(B, K \ {k}, n - c)} : c \in lo..hi}

PagesUnbounded(hits, size) == {hits}

\* what a scan may return: size documents among the hits, or all of them
Pages(hits, size) ==
  Picks(hits, DOMAIN hits, IF BagSize(hits) < size THEN BagSize(hits) ELSE size)

\* the updates the store may reject: none, one, or all of them
Rejections(picked) ==
  {<<>>} \cup {[k \in {j} |-> 1] : j \in DOMAIN picked}
         \cup (IF picked = <<>> THEN {} ELSE {picked})

\* what the store may do during one call
Envs(hits) ==
  {[outcomes |-> o, picked |-> <<>>, bulkError |-> NoError, failed |-> <<>>,
    status |-> 200, visible |-> FALSE] :
     o \in {<<FatalQueryError>>,
            <<AbortedError, NodeNotConnectedError, AbortedError,
              NodeNotConnectedError, AbortedError>>}}
  \cup
  {[outcomes |-> o, picked |-> p, bulkError |-> e, failed |-> <<>>,
    status |-> 200, visible |-> FALSE] :
     o \in {<<>>, <<AbortedError>>}, p \in Pages(hits, ScanSize),
     e \in {NoError, NodeNotConnectedError, FatalQueryError}}
  \cup
  {[outcomes |-> <<>>, picked |-> p[1], bulkError |-> NoError, failed |-> p[2],
    status |-> s, visible |-> v] :
     p \in {q \in Pages(hits, ScanSize) \X
                  UNION {Rejections(x) : x \in Pages(hits, ScanSize)} :
              /\ q[2] # <<>>
              /\ \A k \in DOMAIN q[2] : Count(q[1], k) >= q[2][k]},
     s \in {400, 409}, v \in BOOLEAN}

PropCall ==
  /\ \E env \in Envs(Hits(indexed, params)) :
     \E r \in {Invoke(params, env)} :
       /\ indexed' = r.indexed
       /\ prop' = [op |-> "propagate", error |-> r.error, keepGoing |-> r.keepGoing,
                   found |-> r.found, queries |-> r.queries, bulks |-> r.bulks,
                   items |-> r.items,
                   response |-> r.response, logs |-> r.logs, env |-> env,
                   before |-> indexed]
  /\ UNCHANGED params

PropInit ==
  /\ JobsIdle /\ ExecIdle /\ LifeIdle
  /\ params \in PropCalls
  /\ indexed \in PropStores(params)
  /\ prop = NoCall /\ updates = <<>>
  /\ store = {} /\ continuation = Null /\ seen = <<>> /\ calls = 0 /\ done = FALSE
  /\ last = NoCall /\ wrote = NoCall /\ alive = {}
  /\ keyOf = [i \in Ids |-> 0] /\ writes = 0

PropNext ==
  /\ PropCall
  /\ UNCHANGED <<jobVars, execVars, lifeVars, updates, store, continuation, seen, calls, done, last,
                 wrote, alive, keyOf, writes>>

SpecProp == PropInit /\ [][PropNext]_vars

(***************************************************************************)
(* deleteActivitiesByBlockHash (index.ts:1467-1577), called again with the *)
(* same block hash while it returns true.  The documents are told apart by *)
(* their event.blockHash only.                                             *)
(***************************************************************************)
MaxDeleteCalls == 3

\* index.ts:1470-1480
BlockHashQuery(blockHash, k) == BoolQuery(TRUE, k.blockHash = blockHash, FALSE, {})

\* index.ts:1505-1521: the items of the response of a bulk delete have no
\* `update` member, so `item.update?.status !== 400` holds of every item
DeleteKeepGoingOf(response, found) ==
  IF response.errors
    THEN \E s \in response.statuses : TRUE
    ELSE found = ScanSize

\* B without the documents of gone
Removed(B, gone) ==
  BagOf(DOMAIN B, [k \in DOMAIN B |-> B[k] - Count(gone, k)])

deleteActivitiesByBlockHash(blockHash, env) ==
  LET scan == SearchAttempts(0, env.outcomes)
      found == BagSize(env.picked)
      items == BulkItems(env.picked)
      response == BulkUpdateResponse(env.picked, env.failed, env.status, env.visible)
      gone == BagOf(DOMAIN items,
                    [k \in DOMAIN items |-> items[k] - Count(env.failed, k)])
      none == [errors |-> FALSE, statuses |-> {}]
  IN IF scan.error # NoError
       THEN LET c == PropagationCatch(scan.error) IN
              [error |-> c.error, keepGoing |-> c.keepGoing, indexed |-> indexed,
               found |-> 0, bulks |-> 0, response |-> none]
     ELSE IF found = 0
       THEN [error |-> NoError, keepGoing |-> FALSE, indexed |-> indexed,
             found |-> 0, bulks |-> 0, response |-> none]
     ELSE IF env.bulkError # NoError
       THEN LET c == PropagationCatch(env.bulkError) IN
              [error |-> c.error, keepGoing |-> c.keepGoing, indexed |-> indexed,
               found |-> found, bulks |-> 1, response |-> none]
     ELSE [error |-> NoError, keepGoing |-> DeleteKeepGoingOf(response, found),
           indexed |-> Removed(indexed, gone),
           found |-> found, bulks |-> 1, response |-> response]

BlockHashes == {"h1", "h2"}

BlockStores ==
  {BagOf({[blockHash |-> h] : h \in BlockHashes},
         [k \in {[blockHash |-> h] : h \in BlockHashes} |->
            IF k.blockHash = "h1" THEN n ELSE o]) :
     n \in {0, 1} \cup PageCounts \cup {2 * ScanSize + 1}, o \in {0, 1}}

\* the caller calls again while the call before returned true
DeleteByBlockHash ==
  /\ calls < MaxDeleteCalls
  /\ IF prop = NoCall THEN TRUE ELSE prop.keepGoing
  /\ \E hits \in {BagOf(DOMAIN indexed,
                        [k \in DOMAIN indexed |->
                           IF BlockHashQuery(params.blockHash, k)
                             THEN indexed[k] ELSE 0])} :
     \E env \in Envs(hits) :
     \E r \in {deleteActivitiesByBlockHash(params.blockHash, env)} :
       /\ indexed' = r.indexed
       /\ prop' = [op |-> "delete", error |-> r.error, keepGoing |-> r.keepGoing,
                   found |-> r.found, bulks |-> r.bulks, response |-> r.response,
                   env |-> env, before |-> indexed,
                   initial |-> IF prop = NoCall THEN indexed ELSE prop.initial,
                   unfailing |-> /\ IF prop = NoCall THEN TRUE ELSE prop.unfailing
                                 /\ env.outcomes = <<>> /\ env.bulkError = NoError
                                 /\ env.failed = <<>>]
  /\ calls' = calls + 1
  /\ UNCHANGED params

DeleteInit ==
  /\ JobsIdle /\ ExecIdle /\ LifeIdle
  /\ params \in {[fn |-> "deleteActivitiesByBlockHash", blockHash |-> h] :
                   h \in {"h1"}}
  /\ indexed \in BlockStores
  /\ prop = NoCall /\ updates = <<>>
  /\ store = {} /\ continuation = Null /\ seen = <<>> /\ calls = 0 /\ done = FALSE
  /\ last = NoCall /\ wrote = NoCall /\ alive = {}
  /\ keyOf = [i \in Ids |-> 0] /\ writes = 0

DeleteNext ==
  /\ DeleteByBlockHash
  /\ UNCHANGED <<jobVars, execVars, lifeVars, updates, store, continuation, seen, done, last,
                 wrote, alive, keyOf, writes>>

SpecDelete == DeleteInit /\ [][DeleteNext]_vars

(***************************************************************************)
(* A token-metadata refresh and a collection-metadata refresh that run at  *)
(* the same time on one document.  Each scans and then sends a bulk        *)
(* request of one scripted update (index.ts:1180, 1367); the store runs a  *)
(* scripted update by reading the document with its version, running the   *)
(* script on what it read and writing the result if the version is still   *)
(* the same, and starts over on a conflict, retry_on_conflict times at     *)
(* most.  Other writers may rewrite the document meanwhile.                *)
(***************************************************************************)
RetryOnConflict == 3
MaxTouches == 3

\* the one document of the index
Doc == CHOOSE k \in DOMAIN indexed : TRUE

Step(c, new) == updates' = [updates EXCEPT !.w[c] = new]

\* the scan of the call and what it does with the hits (index.ts:1160-1177)
ScanStep(c) ==
  /\ updates.w[c].pc = "scan"
  /\ Step(c, [updates.w[c] EXCEPT
                !.pc = IF PropQuery(updates.w[c].call, Doc) THEN "get" ELSE "done"])
  /\ UNCHANGED indexed

\* the store reads the document for the update item
GetStep(c) ==
  /\ updates.w[c].pc = "get"
  /\ Step(c, [updates.w[c] EXCEPT !.pc = "put", !.source = Doc,
                                  !.version = updates.version])
  /\ UNCHANGED indexed

\* the store writes what the script made of the document it read, or meets
\* a conflict
PutLosingUpdates(c) ==
  /\ updates.w[c].pc = "put"
  /\ indexed' = [k \in {PropScript(updates.w[c].call, updates.w[c].source)} |-> 1]
  /\ updates' = [updates EXCEPT !.version = @ + 1, !.w[c].pc = "done",
                                !.w[c].status = 200]

PutStep(c) ==
  /\ updates.w[c].pc = "put"
  /\ IF updates.w[c].version = updates.version
       THEN /\ indexed' = [k \in {PropScript(updates.w[c].call, updates.w[c].source)} |-> 1]
            /\ updates' = [updates EXCEPT !.version = @ + 1, !.w[c].pc = "done",
                                          !.w[c].status = 200]
       ELSE /\ UNCHANGED indexed
            /\ IF updates.w[c].conflicts < RetryOnConflict
                 THEN Step(c, [updates.w[c] EXCEPT !.pc = "get", !.conflicts = @ + 1])
                 ELSE Step(c, [updates.w[c] EXCEPT !.pc = "done", !.status = 409])

\* another writer rewrites the document without changing the fields here
Touch ==
  /\ updates.touches < MaxTouches
  /\ updates' = [updates EXCEPT !.version = @ + 1, !.touches = @ + 1]
  /\ UNCHANGED indexed

NotStarted(call) ==
  [call |-> call, pc |-> "scan", source |-> <<>>, version |-> 0, conflicts |-> 0,
   status |-> 0]

InterleaveInit ==
  /\ JobsIdle /\ ExecIdle /\ LifeIdle
  /\ params = [op |-> "interleave"]
  /\ \E c1 \in {c \in PropCalls : c.fn = "updateActivitiesTokenMetadata"
                                    /\ c.image = Some("X")},
        c2 \in {c \in PropCalls : c.fn = "updateActivitiesCollectionMetadata"
                                    /\ c.image = Some("X")} :
       /\ updates = [version |-> 1, touches |-> 0,
                     w |-> <<NotStarted(c1), NotStarted(c2)>>]
       /\ \E tn, cn \in {Null, Some("Y")} :
            indexed = [k \in {MkKind([contract |-> toLowerCase(c1.contract),
                                      tokenId |-> c1.tokenId], "sale",
                                     [cid |-> Some(toLowerCase(c2.collectionId)),
                                      cname |-> cn, cimage |-> Null],
                                     tn, Null)} |-> 1]
  /\ prop = NoCall
  /\ store = {} /\ continuation = Null /\ seen = <<>> /\ calls = 0 /\ done = FALSE
  /\ last = NoCall /\ wrote = NoCall /\ alive = {}
  /\ keyOf = [i \in Ids |-> 0] /\ writes = 0

InterleaveNext ==
  /\ \/ \E c \in 1..2 : ScanStep(c) \/ GetStep(c) \/ PutStep(c)
     \/ Touch
  /\ UNCHANGED <<jobVars, execVars, lifeVars, prop, store, params, continuation, seen, calls,
                 done, last, wrote, alive, keyOf, writes>>

SpecInterleave == InterleaveInit /\ [][InterleaveNext]_vars

(***************************************************************************)
(* initIndex (index.ts:649-756), one store operation at a time: a call     *)
(* waits for the store at each await, and other calls may act meanwhile.   *)
(* indices holds the physical generations, each with its name, the aliases *)
(* that resolve to it and the number of mapping updates applied to it;     *)
(* jobs counts the backfill jobs enqueued; clock is Date.now().            *)
(***************************************************************************)
MaxInits == 2
MaxClock == 2

INDEX_NAME == <<"activities">>

Callers == 1..MaxInits

IndexNotFound ==
  [message |-> "index_not_found_exception", aborted |-> FALSE, causedBy |-> ""]

ResourceAlreadyExists ==
  [message |-> "resource_already_exists_exception", aborted |-> FALSE, causedBy |-> ""]

\* addToQueue of the backfill job failed
QueueError == [message |-> "addToQueue failed", aborted |-> FALSE, causedBy |-> ""]

\* `${INDEX_NAME}-${Date.now()}`
GenerationName(now) == INDEX_NAME \o <<"-", now>>

\* the generations that a name, physical or alias, resolves to
Resolve(I, name) == {g \in I : g.name = name \/ name \in g.aliases}

\* elasticsearch.indices.exists
IndicesExists(I, name) == Resolve(I, name) # {}

\* elasticsearch.indices.create with its aliases
IndicesCreate(I, name, aliases) ==
  IF \E g \in I : g.name = name \/ name \in g.aliases
    THEN [error |-> ResourceAlreadyExists, indices |-> I]
    ELSE [error |-> NoError,
          indices |-> I \cup {[name |-> name, aliases |-> aliases, mappings |-> 0]}]

\* elasticsearch.indices.putMapping
IndicesPutMapping(I, name) ==
  IF Resolve(I, name) = {}
    THEN [error |-> IndexNotFound, indices |-> I]
    ELSE [error |-> NoError,
          indices |-> {IF g \in Resolve(I, name)
                         THEN [g EXCEPT !.mappings = @ + 1] ELSE g : g \in I}]

NotCalled == [pc |-> "exists", indexName |-> <<>>, error |-> NoError, logs |-> <<>>]

\* the catch block, index.ts:742-755
InitCatch(c, error) ==
  inits' = [inits EXCEPT ![c] = [@ EXCEPT !.pc = "done", !.error = error,
                                          !.logs = @ \o <<"Error.">>]]

Goto(c, to, indexName, log) ==
  inits' = [inits EXCEPT ![c] = [@ EXCEPT !.pc = to, !.indexName = indexName,
                                          !.logs = @ \o log]]

\* index.ts:658-683 and 706-723: the answer of indices.exists and what the
\* call does with it before it waits again
CreateUnchecked(c) ==
  /\ inits[c].pc = "exists"
  /\ \/ \E e \in StoreErrors : InitCatch(c, e)
     \/ Goto(c, "create", GenerationName(clock), <<"Creating Index.">>)
  /\ UNCHANGED <<indices, jobs, clock>>

CheckExists(c) ==
  /\ inits[c].pc = "exists"
  /\ \/ \E e \in StoreErrors : InitCatch(c, e)
     \/ IF IndicesExists(indices, INDEX_NAME)
          THEN IF params.disableMappingsUpdate
                 THEN Goto(c, "done", <<>>,
                           <<"Index already exists.", "Mappings update disabled.">>)
                 ELSE Goto(c, "get", <<>>, <<"Index already exists.">>)
          ELSE Goto(c, "create", GenerationName(clock), <<"Creating Index.">>)
  /\ UNCHANGED <<indices, jobs, clock>>

\* index.ts:685-687: the first key of the answer of indices.get
GetIndex(c) ==
  /\ inits[c].pc = "get"
  /\ \/ \E e \in StoreErrors : InitCatch(c, e)
     \/ IF Resolve(indices, INDEX_NAME) = {}
          THEN InitCatch(c, IndexNotFound)
          ELSE \E g \in Resolve(indices, INDEX_NAME) :
                 Goto(c, "putMapping", g.name, <<>>)
  /\ UNCHANGED <<indices, jobs, clock>>

\* index.ts:689-704
PutMappingAndBackfill(c) ==
  /\ inits[c].pc = "putMapping"
  /\ \E r \in {IndicesPutMapping(indices, inits[c].indexName)} :
       /\ indices' = r.indices
       /\ Goto(c, "done", inits[c].indexName, <<"Updated mappings.">>)
  /\ jobs' = jobs + 1
  /\ UNCHANGED clock

PutMapping(c) ==
  /\ inits[c].pc = "putMapping"
  /\ \/ \E e \in StoreErrors : InitCatch(c, e) /\ UNCHANGED indices
     \/ \E r \in {IndicesPutMapping(indices, inits[c].indexName)} :
          /\ indices' = r.indices
          /\ IF r.error = NoError
               THEN Goto(c, "done", inits[c].indexName, <<"Updated mappings.">>)
               ELSE InitCatch(c, r.error)
  /\ UNCHANGED <<jobs, clock>>

\* index.ts:725-738
CreateIndex(c) ==
  /\ inits[c].pc = "create"
  /\ \/ \E e \in StoreErrors : InitCatch(c, e) /\ UNCHANGED indices
     \/ \E r \in {IndicesCreate(indices, inits[c].indexName, {INDEX_NAME})} :
          /\ indices' = r.indices
          /\ IF r.error = NoError
               THEN Goto(c, "enqueue", inits[c].indexName, <<"Index Created!">>)
               ELSE InitCatch(c, r.error)
  /\ UNCHANGED <<jobs, clock>>

\* index.ts:740
EnqueueBackfill(c) ==
  /\ inits[c].pc = "enqueue"
  /\ \/ InitCatch(c, QueueError) /\ UNCHANGED jobs
     \/ jobs' = jobs + 1 /\ Goto(c, "done", inits[c].indexName, <<>>)
  /\ UNCHANGED <<indices, clock>>

initIndex(c) ==
  \/ CheckExists(c)
  \/ GetIndex(c)
  \/ PutMapping(c)
  \/ CreateIndex(c)
  \/ EnqueueBackfill(c)

\* time passes
Tick == clock < MaxClock /\ clock' = clock + 1 /\ UNCHANGED <<indices, jobs, inits>>

\* initIndex calls made one after the other against a store with no index
InitParams == {[op |-> "initIndex", disableMappingsUpdate |-> b] : b \in BOOLEAN}

LifeInit ==
  /\ JobsIdle /\ ExecIdle /\ PropIdle
  /\ params \in InitParams
  /\ indices = {} /\ jobs = 0 /\ clock = 0
  /\ inits = [c \in Callers |-> NotCalled]
  /\ store = {} /\ continuation = Null /\ seen = <<>> /\ calls = 0 /\ done = FALSE
  /\ last = NoCall /\ wrote = NoCall /\ alive = {}
  /\ keyOf = [i \in Ids |-> 0] /\ writes = 0

InTurn(c) == \A d \in Callers : d < c => inits[d].pc = "done"

SeqInitIndex == \E c \in Callers : InTurn(c) /\ initIndex(c)

SeqNext ==
  /\ SeqInitIndex \/ Tick
  /\ UNCHANGED <<jobVars, execVars, propVars, storeVars>>

SpecInit == LifeInit /\ [][SeqNext]_vars

\* initIndex calls that run at the same time: after each await of one call
\* any other call may act
RaceInitIndex == \E c \in Callers : initIndex(c)

RaceNext ==
  /\ RaceInitIndex \/ Tick
  /\ UNCHANGED <<jobVars, execVars, propVars, storeVars>>

SpecRace == LifeInit /\ [][RaceNext]_vars

(***************************************************************************)
(* The index that the update items of a propagation call name.  The        *)
(* documents carry here the generation that holds them (the _index of a    *)
(* hit), and the alias INDEX_NAME spans one generation or two.             *)
(***************************************************************************)
\* _index of an update item: index.ts:804 names INDEX_NAME; index.ts:956,
\* 1180 and 1367 name document.index, the _index of the hit
ItemIndex(call, hit) ==
  IF call.fn = "updateActivitiesMissingCollection" THEN INDEX_NAME ELSE hit.index

\* the store accepts a write to a name that resolves to one generation; an
\* alias of several generations, none of them its write index, is refused
\* with status 400
Reaches(I, name, hit) ==
  \E g \in Resolve(I, name) : Resolve(I, name) = {g} /\ g.name = hit.index

InGeneration(k, g) ==
  [f \in DOMAIN k \cup {"index"} |-> IF f = "index" THEN g.name ELSE k[f]]

Generations ==
  {[name |-> GenerationName(t), aliases |-> {INDEX_NAME}, mappings |-> 0] : t \in 0..1}

\* one document, or one document of the same kind in each of two generations
AddressStores(call, I) ==
  {[k \in {InGeneration(j, g)} |-> 1] : j \in KindsFor(call), g \in I}
  \cup {[k \in {InGeneration(j, g) : g \in I} |-> 1] : j \in KindsFor(call)}

AddressCall ==
  /\ prop = NoCall
  /\ \E visible \in BOOLEAN :
     \E hits \in {Hits(indexed, params)} :
     \E env \in {[outcomes |-> <<>>, picked |-> hits, bulkError |-> NoError,
                  failed |-> BagOf(DOMAIN hits,
                                   [k \in DOMAIN hits |->
                                      IF Reaches(indices, ItemIndex(params, k), k)
                                        THEN 0 ELSE hits[k]]),
                  status |-> 400, visible |-> visible]} :
     \E r \in {Invoke(params, env)} :
       /\ indexed' = r.indexed
       /\ prop' = [op |-> "propagate", error |-> r.error, keepGoing |-> r.keepGoing,
                   found |-> r.found, queries |-> r.queries, bulks |-> r.bulks,
                   items |-> r.items, response |-> r.response, logs |-> r.logs,
                   env |-> env, before |-> indexed,
                   targets |-> {[index |-> k.index, target |-> ItemIndex(params, k)] :
                                  k \in DOMAIN r.items}]
  /\ UNCHANGED <<params, updates>>

AddressInit ==
  /\ JobsIdle /\ ExecIdle
  /\ params \in PropCalls
  /\ indices \in {{g} : g \in Generations} \cup {Generations}
  /\ indexed \in AddressStores(params, indices)
  /\ jobs = 0 /\ clock = 0 /\ inits = <<>>
  /\ prop = NoCall /\ updates = <<>>
  /\ store = {} /\ continuation = Null /\ seen = <<>> /\ calls = 0 /\ done = FALSE
  /\ last = NoCall /\ wrote = NoCall /\ alive = {}
  /\ keyOf = [i \in Ids |-> 0] /\ writes = 0

AddressNext ==
  /\ AddressCall
  /\ UNCHANGED <<jobVars, execVars, lifeVars, store, continuation, seen, calls, done, last,
                 wrote, alive, keyOf, writes>>

SpecAddress == AddressInit /\ [][AddressNext]_vars

(***************************************************************************)
(* The aggregations (index.ts:76-180, 217-342).  Both send their queries   *)
(* to the store themselves, not through _search.  The documents of the     *)
(* model carry no price and all belong to one collection, so a result      *)
(* holds counts only and at most one collection.                           *)
(***************************************************************************)
DayMs == 86400000
BucketMs == 300000

\* index.ts:80-83: the start of the window, in seconds
WindowStartUnrounded(now, days) == (now - days * DayMs) \div 1000

WindowStart(now, days) == (((now - days * DayMs) \div BucketMs) * BucketMs) \div 1000

\* outcomes: how the store answers the query of each period; first: the
\* query that settles first, whose rejection is the one Promise.all raises
getChainStatsFromActivity(S, now, outcomes, first) ==
  LET period(days) ==
        LET docs == {d \in S : /\ d.type \in {"sale", "mint"}
                               /\ d.timestamp >= WindowStart(now, days)}
            mintCount == Cardinality({d \in docs : d.type = "mint"})
            saleCount == Cardinality({d \in docs : d.type = "sale"})
        IN [mintCount |-> mintCount, saleCount |-> saleCount,
            totalCount |-> mintCount + saleCount]
      error == IF outcomes[first] # NoError THEN outcomes[first]
               ELSE outcomes[3 - first]
  IN [error |-> error, queries |-> 2,
      periods |-> <<[name |-> "1day", startTime |-> WindowStart(now, 1)],
                    [name |-> "7day", startTime |-> WindowStart(now, 7)]>>,
      stats |-> IF error = NoError
                  THEN <<[name |-> "1day", stats |-> period(1)],
                         [name |-> "7day", stats |-> period(7)]>>
                  ELSE <<>>]

\* endTime = 0 stands for a call without endTime: both are falsy
getTopSellingCollections(S, p, outcome) ==
  LET types == IF p.fillType = "any" THEN {"sale", "mint"} ELSE {p.fillType}
      docs == {d \in S : /\ d.type \in types
                         /\ d.timestamp >= p.startTime
                         /\ p.endTime # 0 => d.timestamp <= p.endTime}
  IN [error |-> outcome, queries |-> 1,
      collections |-> IF outcome = NoError /\ docs # {}
                        THEN <<[count |-> Cardinality(docs)]>> ELSE <<>>]

\* one call at time now against a store that answers its queries with one
\* of fails
StatsAt(now, fails) ==
  \E first \in 1..2, outcomes \in fails :
  \E r \in {getChainStatsFromActivity(store, now, outcomes, first)} :
    last' = [op |-> "getChainStatsFromActivity", error |-> r.error,
             tuple |-> <<>>, result |-> r.stats, queries |-> r.queries,
             outcomes |-> outcomes, now |-> now, periods |-> r.periods]

StatsCall ==
  /\ \E now \in {7 * DayMs + 1000, 7 * DayMs + BucketMs + 2000} :
       StatsAt(now, [1..2 -> {NoError, AbortedError, FatalQueryError}])
  /\ UNCHANGED <<store, params, continuation, seen, calls, done, wrote, alive,
                 keyOf, writes>>

TopSellingCall ==
  /\ \E p \in [startTime : 0..MaxTime, endTime : 0..MaxTime,
               fillType : {"sale", "mint", "any"}] :
     \E outcome \in {NoError} \cup StoreErrors :
     \E r \in {getTopSellingCollections(store, p, outcome)} :
       last' = [op |-> "getTopSellingCollections", error |-> r.error,
                tuple |-> <<>>, result |-> r.collections, queries |-> r.queries,
                outcomes |-> <<outcome>>]
  /\ UNCHANGED <<store, params, continuation, seen, calls, done, wrote, alive,
                 keyOf, writes>>

(***************************************************************************)
(* One call of one public operation against a store that may fail: search, *)
(* save, deleteActivitiesById or an aggregation on a small store, a        *)
(* propagation function on an index of one document, or initIndex.         *)
(***************************************************************************)
\* no operation on the store of documents has been called yet
Quiet == calls = 0 /\ wrote.op = "none" /\ last.op = "none"

OpsInit ==
  /\ JobsIdle /\ ExecIdle
  /\ \/ /\ params \in WriteParams
        /\ store \in StoresOf(PlainIds, params)
        /\ indexed = <<>>
     \/ /\ params \in PropCalls
        /\ store = {}
        /\ indexed \in {[k \in {j} |-> 1] : j \in KindsFor(params)}
     \/ /\ params \in InitParams
        /\ store = {}
        /\ indexed = <<>>
  /\ prop = NoCall /\ updates = <<>>
  /\ indices = {} /\ jobs = 0 /\ clock = 0
  /\ inits = [c \in Callers |-> NotCalled]
  /\ continuation = Null /\ seen = <<>> /\ calls = 0 /\ done = FALSE
  /\ last = NoCall /\ wrote = NoCall /\ alive = {}
  /\ keyOf = [i \in Ids |-> 0] /\ writes = 0

OpsNext ==
  \/ /\ "sortBy" \in DOMAIN params /\ Quiet
     /\ \/ CallNext
        \/ WriteNext
        \/ StatsCall /\ UNCHANGED <<jobVars, execVars, propVars, lifeVars>>
        \/ TopSellingCall /\ UNCHANGED <<jobVars, execVars, propVars, lifeVars>>
  \/ "fn" \in DOMAIN params /\ prop.op = "none" /\ PropNext
  \/ "disableMappingsUpdate" \in DOMAIN params /\ SeqNext

SpecOps == OpsInit /\ [][OpsNext]_vars

(***************************************************************************)
(* getChainStatsFromActivity called again and again as time passes, on a   *)
(* store that answers; seen keeps the time and the periods of every call.  *)
(***************************************************************************)
MaxStatsCalls == 2

\* times around the ends of 5-minute buckets, a week and more after 0
StatsNows ==
  {7 * DayMs + b * BucketMs + ms :
     b \in 0..2, ms \in {0, 1, 999, 1000, BucketMs - 1001, BucketMs - 1}}

StatsNow ==
  /\ calls < MaxStatsCalls
  /\ \E now \in StatsNows :
       /\ now >= clock
       /\ clock' = now
       /\ StatsAt(now, {[i \in 1..2 |-> NoError]})
  /\ seen' = Append(seen, [now |-> last'.now, periods |-> last'.periods])
  /\ calls' = calls + 1
  /\ UNCHANGED <<store, params, continuation, done, wrote, alive, keyOf, writes>>

StatsInit ==
  /\ JobsIdle /\ ExecIdle /\ PropIdle
  /\ params = [op |-> "getChainStatsFromActivity"]
  /\ store \in {{}, {MkDoc(<<"a">>, [type |-> "sale", createdAt |-> 1, timestamp |-> 1])}}
  /\ indices = {} /\ jobs = 0 /\ inits = <<>>
  /\ clock = 0
  /\ continuation = Null /\ seen = <<>> /\ calls = 0 /\ done = FALSE
  /\ last = NoCall /\ wrote = NoCall /\ alive = {}
  /\ keyOf = [i \in Ids |-> 0] /\ writes = 0

StatsNext == StatsNow /\ UNCHANGED <<jobVars, execVars, propVars, indices, jobs, inits>>

SpecStats == StatsInit /\ [][StatsNext]_vars

(***************************************************************************)
(* The filters of search (index.ts:395-481), on documents that carry the   *)
(* fields they read.  A list parameter is Null when the caller leaves it   *)
(* out and Some of a sequence otherwise; a timestamp is Null or Some of a  *)
(* number.                                                                 *)
(***************************************************************************)
\* params.x?.length
Length(list) == IF list = Null THEN 0 ELSE Len(list[1])

Elements(seq) == {seq[i] : i \in DOMAIN seq}

\* params.x.map((v) => v.toLowerCase())
LowerCased(seq) == [i \in DOMAIN seq |-> toLowerCase(seq[i])]

\* JavaScript truthiness of number | undefined: undefined and 0 are falsy
TruthyNumber(opt) == opt # Null /\ opt[1] # 0

TermsClause(field, values) ==
  [kind |-> "terms", field |-> field, values |-> Elements(values)]

\* index.ts:425-428
TokensFlat(p) ==
  TermsClause("tokenId", [i \in DOMAIN p.tokens[1] |-> p.tokens[1][i].tokenId])

\* index.ts:430-450
TokensExpanded(p) ==
  [kind |-> "pairs",
   pairs |-> {[contract |-> toLowerCase(t.contract), tokenId |-> t.tokenId] :
                t \in Elements(p.tokens[1])}]

\* index.ts:424
TokensClause(p) ==
  IF Length(p.contracts) = 1 THEN TokensFlat(p) ELSE TokensExpanded(p)

\* index.ts:399-481, with the clause for the tokens given
FilterWith(p, tokensClause) ==
  (IF Length(p.types) > 0 THEN <<TermsClause("type", p.types[1])>> ELSE <<>>)
  \o (IF Length(p.collections) > 0
        THEN <<TermsClause("collection", LowerCased(p.collections[1]))>> ELSE <<>>)
  \o (IF Length(p.contracts) > 0
        THEN <<TermsClause("contract", LowerCased(p.contracts[1]))>> ELSE <<>>)
  \o (IF Length(p.sources) > 0
        THEN <<TermsClause("sourceId", p.sources[1])>> ELSE <<>>)
  \o (IF Length(p.tokens) > 0 THEN <<tokensClause>> ELSE <<>>)
  \o (IF Length(p.users) > 0
        THEN <<[kind |-> "users", values |-> Elements(LowerCased(p.users[1]))]>>
        ELSE <<>>)
  \o (IF TruthyNumber(p.startTimestamp)
        THEN <<[kind |-> "gte", value |-> p.startTimestamp[1]]>> ELSE <<>>)
  \o (IF TruthyNumber(p.endTimestamp)
        THEN <<[kind |-> "lt", value |-> p.endTimestamp[1]]>> ELSE <<>>)

FilterQuery(p) == FilterWith(p, IF Length(p.tokens) > 0 THEN TokensClause(p) ELSE Null)

\* the store's reading of one clause
Holds(d, clause) ==
  CASE clause.kind = "terms" -> d[clause.field] \in clause.values
    [] clause.kind = "pairs" ->
         \E t \in clause.pairs : d.contract = t.contract /\ d.tokenId = t.tokenId
    [] clause.kind = "users" ->
         d.fromAddress \in clause.values \/ d.toAddress \in clause.values
    [] clause.kind = "gte" -> d.timestamp >= clause.value
    [] clause.kind = "lt" -> d.timestamp < clause.value

\* the documents of S that a query selects
Selected(S, query) == {d \in S : \A i \in DOMAIN query : Holds(d, query[i])}

FilterDocs ==
  [type : {"sale", "mint"}, collection : {"0xabc", "col2"},
   contract : {"0xabc", "0xdef"}, sourceId : {1, 2}, tokenId : {"1", "2"},
   fromAddress : {"0xabc", "0xdef"}, toAddress : {"0xabc", "0xdef"},
   timestamp : 0..2]

FilterParams ==
  [types : {Null, Some(<<>>), Some(<<"sale">>), Some(<<"sale", "mint">>)},
   collections : {Null, Some(<<"0xABC">>)},
   contracts : {Null, Some(<<>>), Some(<<"0xABC">>), Some(<<"0xABC", "0xdef">>)},
   sources : {Null, Some(<<1>>)},
   tokens : {Null, Some(<<>>),
             Some(<<[contract |-> "0xdef", tokenId |-> "1"]>>),
             Some(<<[contract |-> "0xABC", tokenId |-> "1"],
                    [contract |-> "0xdef", tokenId |-> "2"]>>)},
   users : {Null, Some(<<"0xABC">>)},
   startTimestamp : {Null} \cup {Some(t) : t \in 0..2},
   endTimestamp : {Null} \cup {Some(t) : t \in 0..2}]

\* one search call as far as its filters go: the documents its query selects
FilterCall ==
  /\ last.op = "none"
  /\ last' = [op |-> "filter", error |-> NoError, tuple |-> <<>>,
              query |-> FilterQuery(params),
              activities |-> Selected(store, FilterQuery(params))]
  /\ UNCHANGED <<store, params, continuation, seen, calls, done, wrote, alive,
                 keyOf, writes>>

FilterInit ==
  /\ JobsIdle /\ ExecIdle /\ PropIdle /\ LifeIdle
  /\ params \in FilterParams
  /\ store = FilterDocs
  /\ continuation = Null /\ seen = <<>> /\ calls = 0 /\ done = FALSE
  /\ last = NoCall /\ wrote = NoCall /\ alive = {}
  /\ keyOf = [i \in Ids |-> 0] /\ writes = 0

FilterNext == FilterCall /\ UNCHANGED <<jobVars, execVars, propVars, lifeVars>>

SpecFilter == FilterInit /\ [][FilterNext]_vars

(***************************************************************************)
(* MetadataIndexProcessJob (jobs/metadata-index/metadata-process-job.ts).  *)
(* A run takes tokens off the pending-refresh list of its method, fetches  *)
(* their metadata chunk by chunk and hands what it got to the write job.   *)
(* Tokens are numbers; the metadata of a token is told by the token.       *)
(***************************************************************************)
MaxRuns == 2

\* config.maxParallelTokenRefreshJobs
MaxParallelTokenRefreshJobs == 2

Methods == {"opensea", "soundxyz", "simplehash", "onchain"}

\* metadata-process-job.ts:30-44
CountOf(method) ==
  CASE method = "soundxyz" -> 10
    [] method = "simplehash" -> 50
    [] method = "onchain" -> 1
    [] OTHER -> 20

\* metadata-process-job.ts:46
CountTotal(method) ==
  IF method # "soundxyz" THEN MaxParallelTokenRefreshJobs * CountOf(method)
  ELSE CountOf(method)

\* _.chunk
RECURSIVE Chunk(_, _)
Chunk(seq, n) ==
  IF Len(seq) = 0 THEN <<>>
  ELSE IF Len(seq) <= n THEN <<seq>>
  ELSE <<SubSeq(seq, 1, n)>> \o Chunk(SubSeq(seq, n + 1, Len(seq)), n)

\* PendingRefreshTokens.get: the first tokens of the list leave it
PendingGet(list, n) ==
  LET k == IF Len(list) < n THEN Len(list) ELSE n
  IN [tokens |-> SubSeq(list, 1, k), rest |-> SubSeq(list, k + 1, Len(list))]

\* PendingRefreshTokens.add(tokens, true): to the head of the list
PendingAdd(list, tokens) == tokens \o list

\* How the fetch of a chunk ends: with the metadata, with a
\* RequestWasThrottledError and its delay, or with another error, of which
\* the handler reads response.status and response.data.error.
Fetched == [ok |-> TRUE, throttled |-> FALSE, delay |-> 0, status |-> 200, dataError |-> ""]

RequestWasThrottled(delay) ==
  [ok |-> FALSE, throttled |-> TRUE, delay |-> delay, status |-> 429, dataError |-> ""]

ResponseError(status, dataError) ==
  [ok |-> FALSE, throttled |-> FALSE, delay |-> 0, status |-> status,
   dataError |-> dataError]

Forbidden403 == "Request failed with status code 403"

FetchOutcomes ==
  {Fetched, RequestWasThrottled(2), RequestWasThrottled(30),
   ResponseError(403, Forbidden403), ResponseError(403, "Forbidden"),
   ResponseError(500, "Internal Server Error")}

Max(a, b) == IF a > b THEN a ELSE b

\* the catch handler of a chunk, metadata-process-job.ts:69-94: whether the
\* chunk goes back to the list, and the rate limit after it
CatchReaddingThrottledOnly(outcome, rateLimitExpiredIn) ==
  IF outcome.throttled
    THEN [readd |-> TRUE, rateLimitExpiredIn |-> Max(Max(rateLimitExpiredIn, outcome.delay), 5)]
    ELSE [readd |-> FALSE, rateLimitExpiredIn |-> rateLimitExpiredIn]

FetchCatch(outcome, rateLimitExpiredIn) ==
  IF outcome.throttled
    THEN [readd |-> TRUE, rateLimitExpiredIn |-> Max(Max(rateLimitExpiredIn, outcome.delay), 5)]
    ELSE [readd |-> outcome.dataError = Forbidden403,
          rateLimitExpiredIn |-> rateLimitExpiredIn]

\* the chunks one after the other, as their fetches end (the handlers of
\* Promise.all run one at a time, in the order of order)
RECURSIVE FetchAll(_, _, _, _)
FetchAll(chunks, outcomes, order, acc) ==
  IF order = <<>> THEN acc
  ELSE LET i == Head(order)
           c == IF outcomes[i].ok
                  THEN [readd |-> FALSE, rateLimitExpiredIn |-> acc.rateLimitExpiredIn]
                  ELSE FetchCatch(outcomes[i], acc.rateLimitExpiredIn)
       IN FetchAll(chunks, outcomes, Tail(order),
                   [pending |-> IF c.readd THEN PendingAdd(acc.pending, chunks[i])
                                ELSE acc.pending,
                    readded |-> IF c.readd THEN acc.readded \cup {i} ELSE acc.readded,
                    metadata |-> IF outcomes[i].ok
                                   THEN acc.metadata \cup Elements(chunks[i])
                                   ELSE acc.metadata,
                    rateLimitExpiredIn |-> c.rateLimitExpiredIn])

\* metadata-process-job.ts:27-118; result is the value process returns,
\* Null for undefined
process(method, pending, outcomes, order) ==
  LET got == PendingGet(pending, CountTotal(method))
      refreshTokens == got.tokens
      refreshTokensChunks == Chunk(refreshTokens, CountOf(method))
      all == FetchAll(refreshTokensChunks, outcomes, order,
                      [pending |-> got.rest, readded |-> {}, metadata |-> {},
                       rateLimitExpiredIn |-> 0])
  IN IF refreshTokens = <<>>
       THEN [pending |-> pending, refreshTokens |-> <<>>, chunks |-> <<>>,
             readded |-> {}, written |-> <<>>, result |-> Null]
       ELSE [pending |-> all.pending, refreshTokens |-> refreshTokens,
             chunks |-> refreshTokensChunks, readded |-> all.readded,
             written |-> <<all.metadata>>,
             result |-> IF all.rateLimitExpiredIn # 0
                           \/ Len(refreshTokens) = CountTotal(method)
                          THEN Some(IF all.rateLimitExpiredIn # 0
                                      THEN all.rateLimitExpiredIn ELSE 1)
                          ELSE Some(0)]

\* metadata-process-job.ts:120-125: the jobs it adds to the queue
onCompleted(method, processResult) ==
  IF processResult # Null /\ processResult[1] # 0
    THEN <<[method |-> method, delay |-> processResult[1] * 1000]>>
    ELSE <<>>

Orders(n) ==
  {o \in [1..n -> 1..n] : \A i, j \in 1..n : o[i] = o[j] => i = j}

\* the queue hands the job to process and its result to onCompleted
ProcessRun ==
  /\ worker.runs < MaxRuns
  /\ worker.queue # <<>>
  /\ \E method \in {Head(worker.queue).method} :
     \E n \in {Len(Chunk(PendingGet(worker.pending, CountTotal(method)).tokens,
                         CountOf(method)))} :
     \E outcomes \in [1..n -> FetchOutcomes], order \in Orders(n) :
     \E r \in {process(method, worker.pending, outcomes, order)} :
       worker' = [pending |-> r.pending,
                  written |-> worker.written \o r.written,
                  queue |-> Tail(worker.queue) \o onCompleted(method, r.result),
                  runs |-> worker.runs + 1,
                  run |-> [method |-> method, before |-> worker.pending,
                           refreshTokens |-> r.refreshTokens, chunks |-> r.chunks,
                           outcomes |-> outcomes, readded |-> r.readded,
                           written |-> r.written, result |-> r.result,
                           enqueued |-> onCompleted(method, r.result)]]

MetaInit ==
  /\ ExecIdle /\ StoreIdle /\ PropIdle /\ LifeIdle
  /\ \E method \in Methods :
     \E size \in {0, 1, CountOf(method) + 1, CountTotal(method) - 1, CountTotal(method),
                  CountTotal(method) + 1} :
       worker = [pending |-> [i \in 1..size |-> i], written |-> <<>>,
                 queue |-> <<[method |-> method, delay |-> 0]>>, runs |-> 0,
                 run |-> <<>>]

MetaNext ==
  /\ ProcessRun
  /\ UNCHANGED <<execVars, storeVars, propVars, lifeVars>>

SpecMeta == MetaInit /\ [][MetaNext]_vars

(***************************************************************************)
(* BlurBidsRefreshJob (jobs/order-updates/misc/blur-bids-refresh-job.ts):  *)
(* runs of process for one collection, each followed statement by          *)
(* statement.  Time is counted in ticks; a key set with EX is there until  *)
(* its time to live has passed.                                            *)
(***************************************************************************)
MaxBlurRuns == 2
MaxBlurClock == 3

\* 3600 - 5 seconds, in ticks
LockTtl == 2

BlurRuns == 1..MaxBlurRuns

\* redis.get(lockKey): the value, or null once the key has expired
RedisGet(w) == IF w.lockUntil > w.now THEN Some("locked") ELSE Null

At(r, to) == [worker EXCEPT !.runs[r].pc = to]

\* blur-bids-refresh-job.ts:31-33; a failed request is logged and rethrown
\* (lines 58-66)
FetchBids(r) ==
  /\ worker.runs[r].pc = "fetch"
  /\ \E ok \in BOOLEAN : worker' = At(r, IF ok THEN "enqueue" ELSE "threw")

\* blur-bids-refresh-job.ts:35-47
EnqueueOrders(r) ==
  /\ worker.runs[r].pc = "enqueue"
  /\ worker' = [At(r, "get") EXCEPT !.orders = @ + 1]

\* blur-bids-refresh-job.ts:51
GetLock(r) ==
  /\ worker.runs[r].pc = "get"
  /\ worker' = [At(r, "test") EXCEPT !.runs[r].lock = RedisGet(worker)]

\* blur-bids-refresh-job.ts:52
TestLock(r) ==
  /\ worker.runs[r].pc = "test"
  /\ worker' = At(r, IF worker.runs[r].lock = Null THEN "set" ELSE "done")

\* blur-bids-refresh-job.ts:53
SetLock(r) ==
  /\ worker.runs[r].pc = "set"
  /\ worker' = [At(r, "update") EXCEPT !.lockUntil = worker.now + LockTtl]

\* blur-bids-refresh-job.ts:54
UpdateRoyalties(r) ==
  /\ worker.runs[r].pc = "update"
  /\ worker' = [At(r, "done") EXCEPT
                  !.royalties = Append(@, [by |-> r, at |-> worker.now,
                                           lockUntil |-> worker.lockUntil])]

BlurTick ==
  /\ worker.now < MaxBlurClock
  /\ worker' = [worker EXCEPT !.now = @ + 1]

BlurInit ==
  /\ ExecIdle /\ StoreIdle /\ PropIdle /\ LifeIdle
  /\ worker = [now |-> 0, lockUntil |-> 0, orders |-> 0, royalties |-> <<>>,
               runs |-> [r \in BlurRuns |-> [pc |-> "fetch", lock |-> Null]]]

BlurNext ==
  /\ \/ \E r \in BlurRuns :
          \/ FetchBids(r) \/ EnqueueOrders(r) \/ GetLock(r)
          \/ TestLock(r) \/ SetLock(r) \/ UpdateRoyalties(r)
     \/ BlurTick
  /\ UNCHANGED <<execVars, storeVars, propVars, lifeVars>>

SpecBlur == BlurInit /\ [][BlurNext]_vars

(***************************************************************************)
(* The retrying executor (SpecRetry).                                      *)
(***************************************************************************)
AllTransient ==
  \A i \in 1..Len(attempts) : attempts[i] # NoError /\ retryableError(attempts[i])

Fatal(error) == error # NoError /\ ~retryableError(error)

\* C1, as stated: a store operation that fails transiently on every attempt
\* is attempted exactly 4 times before _search raises its terminal error.
C1_FourAttempts ==
  (pc = "threw" /\ AllTransient) => Len(attempts) = 4

\* C1, amended: such an operation is attempted exactly 5 times (the first
\* attempt and 4 retries): while fewer than 5 attempts have failed the call
\* goes on, the fifth failure ends it with the terminal error, and the
\* terminal error is raised in no other case.
C1_FiveAttempts ==
  /\ AllTransient =>
       /\ Len(attempts) <= 5
       /\ Len(attempts) < 5 => pc = "call" /\ thrown = NoError
       /\ Len(attempts) = 5 => pc = "threw" /\ thrown = CouldNotPerformSearch
  /\ thrown = CouldNotPerformSearch => AllTransient /\ Len(attempts) = 5

C1_Witness ==
  /\ pc = "threw" /\ thrown = CouldNotPerformSearch
  /\ AllTransient /\ Len(attempts) = 5 /\ retries = 4

\* C2: an attempt that fails with a non-transient error is the last attempt
\* of its call, whatever the retry count reached, and the call rejects with
\* that very error.
C2_FatalOnce ==
  \A i \in 1..Len(attempts) :
    Fatal(attempts[i]) => i = Len(attempts) /\ pc = "threw" /\ thrown = attempts[i]

C2_Witness ==
  /\ Len(attempts) = 3 /\ retries = 2
  /\ Fatal(attempts[3]) /\ pc = "threw" /\ thrown = FatalQueryError

\* C3: when _search gives up after transient failures, the error it raises
\* is not the failure it last saw and carries no transient marker (neither
\* the aborted flag nor the node_not_connected_exception cause).
C3_TerminalDistinct ==
  (pc = "threw" /\ retryableError(attempts[Len(attempts)])) =>
    /\ thrown # attempts[Len(attempts)]
    /\ ~thrown.aborted
    /\ thrown.causedBy # "node_not_connected_exception"
    /\ thrown.message = "Could not perform search."

C3_Witness ==
  /\ pc = "threw" /\ attempts # <<>>
  /\ attempts[Len(attempts)] = NodeNotConnectedError
  /\ thrown = CouldNotPerformSearch

(***************************************************************************)
(* Pagination over a store that does not change (Spec).                    *)
(***************************************************************************)
HasSeparator(str) == \E k \in 1..Len(str) : str[k] = "_"

Matching == {d \in store : Matches(d, params)}

Stored(i) == CHOOSE d \in store : d.id = i

SeenIds == {seen[k] : k \in 1..Len(seen)}

NoneTwice == \A j, k \in 1..Len(seen) : seen[j] = seen[k] => j = k

\* descending on the sort field, then, unless continuationAsInt, on the id
SeenInSortOrder ==
  \A j, k \in 1..Len(seen) :
    j < k =>
      \/ SortKey(Stored(seen[j]), params) > SortKey(Stored(seen[k]), params)
      \/ /\ SortKey(Stored(seen[j]), params) = SortKey(Stored(seen[k]), params)
         /\ params.continuationAsInt \/ StrLess(seen[k], seen[j])

\* no call fails; what has been returned is duplicate-free, matching and in
\* sort order; every call before the last returns a full page; and after the
\* null continuation every matching document has been returned
Complete ==
  /\ last.error = NoError
  /\ NoneTwice
  /\ SeenIds \subseteq {d.id : d \in Matching}
  /\ SeenInSortOrder
  /\ ~done => Len(seen) = calls * params.limit
  /\ done => {d.id : d \in Matching} \subseteq SeenIds

\* C4, as stated: for every sort and both continuation modes, ties included,
\* a session that follows the continuations returns every matching document
\* exactly once, in sort order, and ends with a null continuation.
C4_EveryMode == params.limit >= 1 => Complete

SeparatorFree == \A d \in Matching : ~HasSeparator(d.id)

DistinctSortValues ==
  \A d, e \in Matching : SortKey(d, params) = SortKey(e, params) => d = e

\* C4, amended: with a limit of at least 1 this holds in the default mode
\* when no matching id contains "_", and in continuationAsInt mode when no
\* two matching documents share the sort value.
C4_PaginationComplete ==
  (/\ params.limit >= 1
   /\ IF params.continuationAsInt THEN DistinctSortValues ELSE SeparatorFree)
    => Complete

C4_Witness ==
  /\ done /\ calls = 3 /\ params.limit = 1 /\ ~params.continuationAsInt
  /\ Len(seen) = 2 /\ SeenIds = {d.id : d \in Matching} /\ SeparatorFree
  /\ SortKey(Stored(seen[1]), params) = SortKey(Stored(seen[2]), params)

\* the call was made with the continuation the call before it returned
Chained == last.op = "search" /\ Truthy(last.params.continuation)

\* C8, as stated: the resume tuple a call decodes from the continuation is
\* the sort tuple of the last hit of the call that emitted it, component for
\* component, also when a component contains "_".
C8_RoundTripAny == Chained => last.searchAfter = last.resumedFrom

\* C8, amended: this holds when no component of the sort tuple contains "_".
C8_RoundTrip ==
  (Chained /\ \A k \in 1..Len(last.resumedFrom) : ~HasSeparator(last.resumedFrom[k]))
    => last.searchAfter = last.resumedFrom

C8_Witness ==
  /\ Chained /\ ~last.params.continuationAsInt
  /\ Len(last.resumedFrom) = 2 /\ ~HasSeparator(last.resumedFrom[2])
  /\ last.searchAfter = last.resumedFrom /\ last.error = NoError

(***************************************************************************)
(* Pagination while the store is written to (SpecConc).                    *)
(***************************************************************************)
ReturnedOnce == NoneTwice /\ (done => alive \subseteq SeenIds)

Returned == last.op = "search" /\ last.error = NoError

\* the continuation for a page ending with document d, spelled out
ExpectedContinuation(d) ==
  LET text == ToStr(SortKey(d, params))
                \o (IF Len(last.sort) = 2 THEN <<"_">> \o d.id ELSE <<>>)
  IN IF params.continuationAsInt THEN text ELSE <<"#">> \o text

\* C6: the continuation is non-null exactly when the page is non-empty and
\* holds as many hits as the limit asks for, and then it is built from the
\* sort tuple of the last hit; with fewer hits or no limit it is null.
C6_ContinuationIffFullPage ==
  Returned =>
    /\ last.continuation # Null <=>
         (Len(last.activities) = params.limit /\ Len(last.activities) > 0)
    /\ last.continuation # Null =>
         last.continuation[1] = ExpectedContinuation(last.activities[Len(last.activities)])

C6_Witness ==
  /\ Returned /\ params.limit = 2 /\ Len(last.activities) = 2
  /\ last.continuation # Null /\ Len(last.sort) = 2

HasIdTieBreak(sort) == Len(sort) = 2 /\ sort[2] = "id"

\* the store was asked, so a sort was built
Queried == last.op = "search" /\ last.queries > 0

\* C7, as stated: the id tie-break is in the sort exactly when
\* continuationAsInt is not set, whatever continuation is supplied.
C7_TieBreakUnlessAsInt ==
  Queried => (HasIdTieBreak(last.sort) <=> ~params.continuationAsInt)

OneComponent(c) == Truthy(c) /\ ~HasSeparator(c[1])

\* C7, amended: the id tie-break is in the sort exactly when
\* continuationAsInt is not set and the supplied continuation does not
\* decode to exactly one component.
C7_TieBreak ==
  Queried =>
    /\ last.sort[1] = (IF params.sortBy = "timestamp" THEN "timestamp" ELSE "createdAt")
    /\ HasIdTieBreak(last.sort) <=>
         (~params.continuationAsInt /\ ~OneComponent(params.continuation))

C7_Witness ==
  /\ Queried /\ ~params.continuationAsInt /\ OneComponent(params.continuation)
  /\ last.sort = <<"createdAt">> /\ last.error = NoError

Encoded(c) == c # <<>> /\ Head(c) = "#"

\* a continuation is given (null and "" count as none) and it is not a cursor
\* a session of this mode can have returned
InvalidCursor ==
  /\ Truthy(params.continuation)
  /\ IF params.continuationAsInt
       THEN ParseInt(params.continuation[1]) < 0
       ELSE ~Encoded(params.continuation[1])

\* C9, as stated: a call given an invalid cursor fails with
\* MalformedContinuation before any store query is issued.
C9_AlwaysMalformed ==
  (last.op = "search" /\ InvalidCursor) =>
    last.error = MalformedContinuation /\ last.queries = 0

\* C9, amended: so it is in the default mode.  In continuationAsInt mode the
\* continuation is not decoded: the store is queried with it as the resume
\* value, and the call fails with the store's error.
C9_Malformed ==
  (last.op = "search" /\ InvalidCursor) =>
    IF params.continuationAsInt
      THEN /\ last.queries >= 1 /\ last.searchAfter = <<params.continuation[1]>>
           /\ last.error \notin {NoError, MalformedContinuation}
      ELSE last.error = MalformedContinuation /\ last.queries = 0

C9_Witness ==
  /\ last.op = "search" /\ ~params.continuationAsInt
  /\ params.continuation = Some(<<"z">>)
  /\ last.error = MalformedContinuation /\ last.queries = 0

(***************************************************************************)
(* Writers (SpecWrites).                                                   *)
(***************************************************************************)
UniqueIds == \A d, e \in store : d.id = e.id => d = e

Upserted == wrote.op = "save" /\ wrote.upsert /\ wrote.error = NoError

IdsIn(S) == {d.id : d \in S}

\* C10, as stated: the store holds at most one document per id; saving ids
\* that are already stored leaves the count unchanged, and the stored
\* document is the last one saved with its id.
C10_LastSavedStored ==
  /\ UniqueIds
  /\ Upserted =>
       /\ \A j \in 1..Len(wrote.activities) :
            (\A k \in (j + 1)..Len(wrote.activities) :
               wrote.activities[k].id # wrote.activities[j].id)
              => wrote.activities[j] \in store
       /\ {wrote.activities[j].id : j \in 1..Len(wrote.activities)}
            \subseteq IdsIn(wrote.before)
              => Cardinality(store) = Cardinality(wrote.before)

Indexed == (1..Len(wrote.activities)) \ wrote.failed

\* C10, amended: ... and, for the items the bulk response does not report
\* as failed, the stored document is the last one saved with its id; the
\* count grows by the number of ids indexed that were not stored before.
C10_IdempotentUpsert ==
  /\ UniqueIds
  /\ Upserted =>
       /\ \A j \in Indexed :
            (\A k \in Indexed : k > j => wrote.activities[k].id # wrote.activities[j].id)
              => wrote.activities[j] \in store
       /\ {wrote.activities[j].id : j \in 1..Len(wrote.activities)}
            \subseteq IdsIn(wrote.before)
              => Cardinality(store) = Cardinality(wrote.before)
       /\ Cardinality(store) = Cardinality(wrote.before)
            + Cardinality({wrote.activities[j].id : j \in Indexed} \ IdsIn(wrote.before))

C10_Witness ==
  /\ Upserted /\ wrote.failed = {} /\ Len(wrote.activities) = 2
  /\ wrote.activities[1].id = wrote.activities[2].id
  /\ wrote.activities[1] # wrote.activities[2]
  /\ wrote.activities[2].id \in IdsIn(wrote.before)
  /\ wrote.activities[2] \notin wrote.before
  /\ wrote.activities[2] \in store
  /\ Cardinality(store) = Cardinality(wrote.before)

\* C11, as stated: when the bulk response of save reports failed items, save
\* returns normally, has sent one bulk request and no more, and has logged
\* the failure, with upsert set and with upsert unset.
C11_LogsAnyMode ==
  (wrote.op = "save" /\ wrote.failed # {}) =>
    wrote.error = NoError /\ wrote.bulks = 1 /\ wrote.logs # <<>>

\* C11, amended: ... and has logged the failure when upsert is set; with
\* upsert unset it logs nothing.
C11_PartialFailure ==
  (wrote.op = "save" /\ wrote.failed # {}) =>
    /\ wrote.error = NoError /\ wrote.bulks = 1
    /\ wrote.logs = IF wrote.upsert THEN <<"save activities errors">> ELSE <<>>

C11_Witness ==
  /\ wrote.op = "save" /\ ~wrote.upsert /\ Len(wrote.activities) = 2
  /\ wrote.failed = {1} /\ wrote.failing = {}
  /\ wrote.activities[2] \in store /\ wrote.activities[2] \notin wrote.before
  /\ wrote.error = NoError /\ wrote.logs = <<>>

GivenIds == {wrote.ids[j] : j \in 1..Len(wrote.ids)}

\* C12: deleteActivitiesById sends one bulk delete; ids given twice or not
\* stored are no errors: when the store rejects no item the call returns
\* normally, no document with a given id remains and the others are as
\* they were.
C12_DeleteByIds ==
  (wrote.op = "delete" /\ wrote.injected = NoError /\ wrote.failing = {}) =>
    /\ wrote.error = NoError /\ wrote.bulks = 1
    /\ wrote.failed = {} /\ wrote.logs = <<>>
    /\ store = {d \in wrote.before : d.id \notin GivenIds}

C12_Witness ==
  /\ wrote.op = "delete" /\ wrote.error = NoError /\ wrote.failed = {}
  /\ Len(wrote.ids) = 2 /\ wrote.ids[1] = wrote.ids[2]
  /\ Cardinality(wrote.before) = 2 /\ Cardinality(store) = 1
  /\ wrote.ids[1] \notin IdsIn(store)

(***************************************************************************)
(* The propagation functions (SpecProp).                                   *)
(***************************************************************************)
Propagated == prop.op = "propagate"

\* the bulk update was sent and the store answered it
Answered == Propagated /\ prop.bulks = 1 /\ prop.env.bulkError = NoError

Transient(error) == error # NoError /\ retryableError(error)

\* C14: when the bulk update reports no errors the call returns keepGoing =
\* true if the scan found exactly 1000 candidates and false if it found
\* fewer, for each of the four functions.
C14_KeepGoingOnSuccess ==
  (Answered /\ prop.env.failed = <<>>) =>
    /\ prop.error = NoError
    /\ prop.found <= ScanSize
    /\ prop.keepGoing <=> prop.found = ScanSize

C14_Witness ==
  /\ Answered /\ prop.env.failed = <<>> /\ prop.found = ScanSize /\ prop.keepGoing
  /\ BagSize(prop.before) = ScanSize + 1
  /\ params.fn = "updateActivitiesCollectionMetadata"

\* C15, as stated: the call returns keepGoing = true if the bulk response
\* holds an item error whose status is not 400 or if exactly 1000 candidates
\* were found, and false otherwise.
C15_ErrorOrFull ==
  Answered =>
    (prop.keepGoing <=>
       \/ prop.env.failed # <<>> /\ prop.env.status # 400
       \/ prop.found = ScanSize)

\* C15, amended: when the response reports errors, keepGoing is true unless
\* every item of the response has status 400 (an item that succeeded counts
\* as one with another status), whatever the number of candidates; when it
\* reports none, keepGoing is true exactly when 1000 candidates were found.
C15_KeepGoing ==
  Answered =>
    (prop.keepGoing <=>
       IF prop.env.visible /\ prop.env.failed # <<>>
         THEN prop.env.status # 400 \/ BagSize(prop.env.failed) < prop.found
         ELSE prop.found = ScanSize)

C15_Witness ==
  /\ Answered /\ prop.found = ScanSize /\ prop.env.visible
  /\ prop.env.failed = prop.env.picked /\ prop.env.status = 400
  /\ ~prop.keepGoing /\ prop.error = NoError

AllTransientOutcomes ==
  /\ prop.env.outcomes # <<>>
  /\ \A i \in 1..Len(prop.env.outcomes) : Transient(prop.env.outcomes[i])

\* C16, as stated: a transient failure of the scan or of the bulk update
\* makes the call return keepGoing = true and raise nothing, also when the
\* scan fails on every attempt of _search.
C16_TransientKeepsGoing ==
  (Propagated /\ (AllTransientOutcomes
                    \/ (prop.bulks = 1 /\ Transient(prop.env.bulkError)))) =>
    prop.error = NoError /\ prop.keepGoing

\* C16, amended: a transient failure of the bulk update does so, and leaves
\* the index as it was.  A scan that fails transiently is retried by
\* _search: when an attempt succeeds the call goes on with what it found,
\* and when all 5 attempts fail the call raises the terminal error of
\* _search and sends no bulk update.
C16_Transient ==
  Propagated =>
    /\ (prop.bulks = 1 /\ Transient(prop.env.bulkError)) =>
         prop.error = NoError /\ prop.keepGoing /\ indexed = prop.before
    /\ (AllTransientOutcomes /\ Len(prop.env.outcomes) > MaxRetries + 1) =>
         /\ prop.error = CouldNotPerformSearch /\ ~prop.keepGoing
         /\ prop.queries = MaxRetries + 2 /\ prop.bulks = 0
         /\ indexed = prop.before
    /\ (AllTransientOutcomes /\ Len(prop.env.outcomes) <= MaxRetries + 1) =>
         /\ prop.queries = Len(prop.env.outcomes) + 1
         /\ prop.found = BagSize(prop.env.picked)
         /\ prop.bulks = IF prop.found > 0 THEN 1 ELSE 0

C16_Witness ==
  /\ Propagated /\ prop.bulks = 1 /\ prop.env.bulkError = NodeNotConnectedError
  /\ prop.error = NoError /\ prop.keepGoing /\ prop.found = 1

\* C17: a fatal error of the scan or of the bulk update is raised to the
\* caller as it is; the call returns no keepGoing then.
C17_FatalPropagates ==
  Propagated =>
    /\ (prop.env.outcomes # <<>> /\ Fatal(prop.env.outcomes[Len(prop.env.outcomes)])) =>
         /\ prop.error = prop.env.outcomes[Len(prop.env.outcomes)]
         /\ ~prop.keepGoing /\ prop.bulks = 0
    /\ (prop.bulks = 1 /\ Fatal(prop.env.bulkError)) =>
         prop.error = prop.env.bulkError /\ ~prop.keepGoing

C17_Witness ==
  /\ Propagated /\ prop.bulks = 1 /\ prop.found = ScanSize
  /\ prop.env.bulkError = FatalQueryError /\ prop.error = FatalQueryError

\* the documents the last call updated
Moved ==
  IF Answered
    THEN BagOf(DOMAIN prop.env.picked,
               [k \in DOMAIN prop.env.picked |->
                  prop.env.picked[k] - Count(prop.env.failed, k)])
    ELSE <<>>

\* C18: a document that a token-metadata or collection-metadata refresh has
\* updated carries the new values and no longer matches the staleness query
\* of the call, so that a second call does not select it.
C18_Converges ==
  (Propagated /\ params.fn \in {"updateActivitiesTokenMetadata",
                                "updateActivitiesCollectionMetadata"}) =>
    \A k \in DOMAIN Moved :
      /\ PropScript(params, k) \in DOMAIN indexed
      /\ IF params.fn = "updateActivitiesTokenMetadata"
           THEN /\ PropScript(params, k).tname = params.name
                /\ PropScript(params, k).timage = params.image
           ELSE /\ PropScript(params, k).cname = params.name
                /\ PropScript(params, k).cimage = params.image
      /\ ~PropQuery(params, PropScript(params, k))

\* the documents of the entity that the arguments of the call name
Targeted(call, k) ==
  IF call.fn = "updateActivitiesCollectionMetadata"
    THEN k.cid = Some(toLowerCase(call.collectionId))
    ELSE k.contract = toLowerCase(call.contract) /\ k.tokenId = call.tokenId

\* the store did not fail during the last call
Unfailing ==
  /\ prop.env.outcomes = <<>> /\ prop.env.bulkError = NoError
  /\ prop.env.failed = <<>>

\* C19: when, with a store that does not fail, a call returns keepGoing =
\* false (the caller stops), no document of the entity the call was made
\* for matches the staleness query of the call.
C19_StopsConverged ==
  (Propagated /\ Unfailing /\ prop.error = NoError /\ ~prop.keepGoing) =>
    \A k \in DOMAIN indexed : ~(Targeted(params, k) /\ PropQuery(params, k))

(***************************************************************************)
(* initIndex (SpecInit).                                                   *)
(***************************************************************************)
\* the call has returned without an error
Completed(c) == inits[c].pc = "done" /\ inits[c].error = NoError

\* C20: initIndex calls made one after the other against a store without an
\* activities index create at most one physical generation between them, and
\* after each call that returned there is exactly one, to which the logical
\* alias resolves.
C20_AliasStable ==
  /\ Cardinality(indices) <= 1
  /\ \A c \in Callers : Completed(c) =>
       /\ Cardinality(indices) = 1
       /\ Resolve(indices, INDEX_NAME) = indices
       /\ \A g \in indices : g.name # INDEX_NAME

C20_Witness ==
  /\ Completed(1) /\ Completed(2) /\ clock > 0
  /\ Cardinality(Resolve(indices, INDEX_NAME)) = 1
  /\ inits[1].logs = <<"Creating Index.", "Index Created!">>
  /\ inits[2].logs[1] = "Index already exists."
  /\ \A g \in indices : g.name = GenerationName(0)

(***************************************************************************)
(* Store errors and the public operations (SpecOps).                       *)
(***************************************************************************)
\* the errors that the calls made so far have raised to their callers
Surfaced ==
  {last.error, wrote.error, prop.error} \cup {inits[c].error : c \in Callers}

\* C13, as stated: no public operation raises a transient store error to its
\* caller.
C13_NeverSurfaced == \A e \in Surfaced : ~Transient(e)

\* C13, amended: search and the propagation functions raise no transient
\* store error.  save, deleteActivitiesById and the aggregations send one
\* request per query, without a retry, and raise the error of the store as
\* it is, a transient one included; initIndex logs the error and raises it.
C13_Surfacing ==
  /\ last.op = "search" => ~Transient(last.error)
  /\ prop.op = "propagate" => ~Transient(prop.error)
  /\ wrote.op \in {"save", "delete"} =>
       wrote.error = wrote.injected /\ wrote.bulks = 1
  /\ last.op \in {"getChainStatsFromActivity", "getTopSellingCollections"} =>
       /\ last.queries = Len(last.outcomes)
       /\ \/ last.error = NoError /\ \A i \in DOMAIN last.outcomes : last.outcomes[i] = NoError
          \/ last.error # NoError /\ \E i \in DOMAIN last.outcomes : last.outcomes[i] = last.error
  /\ \A c \in DOMAIN inits : inits[c].error # NoError =>
       /\ inits[c].pc = "done"
       /\ inits[c].logs[Len(inits[c].logs)] = "Error."

C13_Witness ==
  /\ wrote.op = "save" /\ wrote.injected = AbortedError
  /\ Transient(wrote.error) /\ wrote.bulks = 1 /\ store = wrote.before

\* C21: the logical alias resolves to at most one physical generation, also
\* when initIndex calls run at the same time.
C21_OneGeneration == Cardinality(Resolve(indices, INDEX_NAME)) <= 1

\* the call found that the alias resolves
Found(c) == inits[c].logs # <<>> /\ inits[c].logs[1] = "Index already exists."

Names(I) == {g.name : g \in I}

\* C22: a call that finds the alias resolving creates no generation and
\* enqueues no backfill job; it changes nothing in the store when the mapping
\* update is disabled, and otherwise only applies one mapping update, to a
\* generation that the alias resolves to.
C22_OnlyMapping ==
  [][\A c \in Callers :
       /\ (inits[c].pc = "exists" /\ inits'[c] # inits[c]
             /\ inits'[c].error = NoError /\ IndicesExists(indices, INDEX_NAME)) =>
            /\ indices' = indices /\ jobs' = jobs
            /\ inits'[c].pc = IF params.disableMappingsUpdate THEN "done" ELSE "get"
       /\ (Found(c) /\ inits'[c] # inits[c]) =>
            /\ jobs' = jobs
            /\ Names(indices') = Names(indices)
            /\ ~params.disableMappingsUpdate
            /\ indices' # indices =>
                 /\ inits[c].pc = "putMapping" /\ inits'[c].pc = "done"
                 /\ inits[c].indexName \in Names(Resolve(indices, INDEX_NAME))
                 /\ indices' = IndicesPutMapping(indices, inits[c].indexName).indices
                 /\ \E g \in indices : /\ g.name = inits[c].indexName
                                        /\ indices' = (indices \ {g}) \cup
                                             {[g EXCEPT !.mappings = @ + 1]}]_vars

C22_Witness ==
  /\ Completed(1) /\ Completed(2)
  /\ inits[2].logs = <<"Index already exists.", "Updated mappings.">>
  /\ jobs = 1
  /\ \E g \in indices : g.mappings = 1 /\ g.name = inits[2].indexName

\* every call has returned
AllReturned == \A c \in Callers : inits[c].pc = "done"

\* C23: once the calls have returned, a backfill job has been enqueued for
\* every generation that they created.
C23_BackfillEnqueued == AllReturned => jobs >= Cardinality(indices)

(***************************************************************************)
(* The filters of search (SpecFilter).                                     *)
(***************************************************************************)
Filtered == last.op = "filter"

\* the document satisfies every filter that the caller supplied: one of the
\* values of each, addresses compared in lower case
SatisfiesFilters(d, p) ==
  /\ Length(p.types) > 0 => d.type \in Elements(p.types[1])
  /\ Length(p.collections) > 0 => d.collection \in Elements(LowerCased(p.collections[1]))
  /\ Length(p.contracts) > 0 => d.contract \in Elements(LowerCased(p.contracts[1]))
  /\ Length(p.sources) > 0 => d.sourceId \in Elements(p.sources[1])
  /\ Length(p.tokens) > 0 =>
       \E t \in Elements(p.tokens[1]) :
         d.contract = toLowerCase(t.contract) /\ d.tokenId = t.tokenId
  /\ Length(p.users) > 0 =>
       \/ d.fromAddress \in Elements(LowerCased(p.users[1]))
       \/ d.toAddress \in Elements(LowerCased(p.users[1]))

\* C24: a search without a timestamp range selects exactly the documents
\* that satisfy all the filters supplied; a filter that is left out or empty
\* adds no constraint.
C24_ExactFilters ==
  (Filtered /\ params.startTimestamp = Null /\ params.endTimestamp = Null) =>
    last.activities = {d \in store : SatisfiesFilters(d, params)}

\* C25: with tokens and exactly one entry in contracts, the query selects the
\* documents that the query with the expansion into (contract, tokenId) pairs
\* selects.
C25_SameSelection ==
  (Filtered /\ Length(params.tokens) > 0 /\ Length(params.contracts) = 1) =>
    last.activities = Selected(store, FilterWith(params, TokensExpanded(params)))

\* C26: every document selected lies in the timestamp range supplied, from
\* startTimestamp on and before endTimestamp, whatever their values.
C26_WithinRange ==
  Filtered =>
    \A d \in last.activities :
      /\ params.startTimestamp # Null => params.startTimestamp[1] <= d.timestamp
      /\ params.endTimestamp # Null => d.timestamp < params.endTimestamp[1]

(***************************************************************************)
(* The windows of getChainStatsFromActivity (SpecStats).                   *)
(***************************************************************************)
Bucket(now) == now \div BucketMs

WindowDays == <<1, 7>>

\* C27: the start of each window, in seconds, is a multiple of 300, is not
\* later than now minus the window and is less than 300 seconds earlier;
\* calls made in the same 5-minute bucket ask for the same periods.
C27_Buckets ==
  /\ \A i \in DOMAIN seen : \A w \in 1..2 :
       LET startTime == seen[i].periods[w].startTime
           exact == seen[i].now - WindowDays[w] * DayMs
       IN /\ startTime % 300 = 0
          /\ startTime * 1000 <= exact
          /\ exact - startTime * 1000 < 300 * 1000
  /\ \A i, j \in DOMAIN seen :
       Bucket(seen[i].now) = Bucket(seen[j].now) => seen[i].periods = seen[j].periods

C27_Witness ==
  /\ Len(seen) = 2 /\ seen[1].now # seen[2].now
  /\ Bucket(seen[1].now) = Bucket(seen[2].now)
  /\ seen[1].now % 1000 # 0
  /\ seen[1].periods = seen[2].periods
  /\ seen[1].periods[1].startTime = 6 * 86400 + 300
  /\ seen[1].periods[2].startTime = 300

\* C28: the documents that a call selects are documents of the entity that
\* its arguments name, and a token-metadata refresh selects every non-bid
\* document of its token that has a token sub-field other than the new value.
C28_OnlyTargeted ==
  Propagated =>
    /\ \A k \in DOMAIN Hits(prop.before, params) : Targeted(params, k)
    /\ params.fn = "updateActivitiesTokenMetadata" =>
         \A k \in DOMAIN prop.before :
           (/\ Targeted(params, k) /\ k.type # "bid"
            /\ \/ k.tname # params.name
               \/ k.timage # params.image
               \/ k.tmedia # params.media) =>
             k \in DOMAIN Hits(prop.before, params)

\* the fields of a document that the script of the function does not name
Frame(fn, k) ==
  CASE fn = "updateActivitiesTokenMetadata" ->
         [contract |-> k.contract, tokenId |-> k.tokenId, type |-> k.type,
          cid |-> k.cid, cname |-> k.cname, cimage |-> k.cimage]
    [] fn = "updateActivitiesCollectionMetadata" ->
         [contract |-> k.contract, tokenId |-> k.tokenId, type |-> k.type,
          cid |-> k.cid, tname |-> k.tname, timage |-> k.timage, tmedia |-> k.tmedia]
    [] OTHER ->
         [contract |-> k.contract, tokenId |-> k.tokenId, type |-> k.type,
          tname |-> k.tname, timage |-> k.timage, tmedia |-> k.tmedia]

\* how many documents of B have the frame f
FrameCount(B, fn, f) == SumOver(B, {k \in DOMAIN B : Frame(fn, k) = f})

\* C29: a call leaves the fields that its script does not name as they were
\* in every document, and leaves the documents that it did not update as
\* they were; a call whose bulk update was not answered changes nothing.
C29_Frame ==
  Propagated =>
    /\ \A k \in DOMAIN prop.before \cup DOMAIN indexed :
         FrameCount(indexed, params.fn, Frame(params.fn, k))
           = FrameCount(prop.before, params.fn, Frame(params.fn, k))
    /\ \A k \in DOMAIN prop.before :
         Count(indexed, k) >= prop.before[k] - Count(Moved, k)
    /\ ~Answered => indexed = prop.before

C29_Witness ==
  /\ Answered /\ params.fn = "updateActivitiesCollectionMetadata"
  /\ BagSize(prop.before) = ScanSize /\ BagSize(Moved) = ScanSize - 1
  /\ Cardinality(DOMAIN prop.before) = 2
  /\ \E k \in DOMAIN Moved :
       /\ k.tname = Some("T") /\ k.cname # params.name
       /\ PropScript(params, k) \in DOMAIN indexed
       /\ PropScript(params, k).tname = Some("T")
       /\ PropScript(params, k).cname = params.name
  /\ \E k \in DOMAIN prop.before : k \notin DOMAIN Moved /\ k \in DOMAIN indexed

(***************************************************************************)
(* Propagation calls that run at the same time (SpecInterleave).           *)
(***************************************************************************)
\* both calls have returned and the store rejected no update
BothDone ==
  \A c \in 1..2 : updates.w[c].pc = "done" /\ updates.w[c].status # 409

\* C30: when a token-metadata refresh and a collection-metadata refresh of
\* the token and the collection of one document have run at the same time,
\* with no update given up on conflicts, the document carries the new values
\* of both.
C30_BothApplied ==
  (updates # <<>> /\ BothDone) =>
    /\ Doc.tname = updates.w[1].call.name
    /\ Doc.timage = updates.w[1].call.image
    /\ Doc.tmedia = updates.w[1].call.media
    /\ Doc.cname = updates.w[2].call.name
    /\ Doc.cimage = updates.w[2].call.image

(***************************************************************************)
(* Null and empty new values (SpecProp).                                   *)
(***************************************************************************)
\* the sub-fields a call writes: the new value, the field before and after
\* the script
SubFields(call, k) ==
  IF call.fn = "updateActivitiesTokenMetadata"
    THEN {<<call.name, k.tname, PropScript(call, k).tname>>,
          <<call.image, k.timage, PropScript(call, k).timage>>,
          <<call.media, k.tmedia, PropScript(call, k).tmedia>>}
    ELSE {<<call.name, k.cname, PropScript(call, k).cname>>,
          <<call.image, k.cimage, PropScript(call, k).cimage>>}

\* the staleness query tests the sub-field as it does for a null new value:
\* a document without the field is not stale
QueryCountsAsNull(newValue) == ~StaleClause(newValue, Null)

\* C31: in every updated document a sub-field whose new value is null is
\* removed and one whose new value is not null holds the new value, each
\* sub-field by itself; and in the metadata refreshes the script removes a
\* sub-field exactly when the staleness query counts its new value as null.
C31_NullAgreement ==
  Propagated =>
    \A k \in DOMAIN Moved :
      /\ PropScript(params, k) \in DOMAIN indexed
      /\ \A f \in SubFields(params, k) :
           /\ f[1] = Null => f[3] = Null
           /\ f[1] # Null => f[3] = f[1]
           /\ params.fn \in {"updateActivitiesTokenMetadata",
                             "updateActivitiesCollectionMetadata"}
                => (QueryCountsAsNull(f[1]) <=> f[3] = Null)

(***************************************************************************)
(* The bulk request of a propagation call (SpecProp).                      *)
(***************************************************************************)
\* the scan of the last call answered without a hit
ScanEmpty ==
  /\ Propagated
  /\ SearchAttempts(0, prop.env.outcomes).error = NoError
  /\ prop.env.picked = <<>>

\* C32: a propagation call sends at most one bulk update; the bulk update
\* holds one update item for every document the scan returned and at most
\* 1000 items; when the scan returns nothing the call sends no bulk update
\* and returns keepGoing = false.
C32_OneBoundedBulk ==
  Propagated =>
    /\ prop.bulks \in {0, 1}
    /\ prop.bulks = 1 =>
         /\ prop.items = prop.env.picked
         /\ BagSize(prop.items) \in 1..ScanSize
    /\ prop.bulks = 0 => prop.items = <<>>
    /\ ScanEmpty => prop.bulks = 0 /\ ~prop.keepGoing /\ prop.error = NoError

\* a full bulk update out of more matching documents than a scan returns
C32_Witness ==
  /\ Propagated /\ prop.bulks = 1
  /\ BagSize(prop.items) = ScanSize
  /\ BagSize(Hits(prop.before, params)) = ScanSize + 1

(***************************************************************************)
(* The index of the update items (SpecAddress).                            *)
(***************************************************************************)
\* C33: every update item of a propagation call names the generation that
\* the scan reported for its document, so that the store applies the update
\* also when the alias spans several generations.
C33_HitIndex ==
  (Propagated /\ prop.bulks = 1) =>
    /\ \A t \in prop.targets : t.target = t.index
    /\ prop.env.failed = <<>>

(***************************************************************************)
(* The resume tuple of a search call (Spec).                               *)
(***************************************************************************)
\* the last call was given the continuation of the call before it and has
\* queried the store
Resumed ==
  last.op = "search" /\ Truthy(last.params.continuation) /\ last.queries >= 1

OnlyBadRequests ==
  /\ prop.env.outcomes = <<>> /\ prop.env.bulkError = NoError
  /\ prop.env.failed = <<>> \/ prop.env.status = 400

\* C35: when a call of deleteActivitiesByBlockHash returns false, the store
\* having failed in nothing but items of status 400, no document of the
\* block hash remains and the documents of other block hashes are as they
\* were before the first call.
C35_NoneRemains ==
  (prop.op = "delete" /\ prop.error = NoError /\ ~prop.keepGoing /\ OnlyBadRequests) =>
    /\ \A k \in DOMAIN indexed : k.blockHash # params.blockHash
    /\ \A k \in DOMAIN prop.initial :
         k.blockHash # params.blockHash => Count(indexed, k) = prop.initial[k]

(***************************************************************************)
(* MetadataIndexProcessJob (SpecMeta).                                     *)
(***************************************************************************)
\* the last run took tokens off the list
Ran == worker.run # <<>> /\ worker.run.refreshTokens # <<>>

\* chunk i of the last run is back in the list and nothing of it went to the
\* write job
Kept(i) ==
  /\ Elements(worker.run.chunks[i]) \subseteq Elements(worker.pending)
  /\ Elements(worker.run.chunks[i]) \cap worker.run.written[1] = {}

\* the metadata of chunk i of the last run went to the write job
Forwarded(i) == Elements(worker.run.chunks[i]) \subseteq worker.run.written[1]

MayBePending ==
  \/ Len(worker.run.refreshTokens) = CountTotal(worker.run.method)
  \/ worker.run.readded # {}

\* C37: a run after which tokens may still be pending returns a positive
\* delay and a job of the same method is added to the queue; after any
\* other run no job is added.
C37_FollowUp ==
  worker.run # <<>> =>
    IF worker.run.refreshTokens # <<>> /\ MayBePending
      THEN /\ worker.run.result # Null /\ worker.run.result[1] > 0
           /\ worker.run.enqueued =
                <<[method |-> worker.run.method, delay |-> worker.run.result[1] * 1000]>>
      ELSE worker.run.enqueued = <<>>

(***************************************************************************)
(* BlurBidsRefreshJob (SpecBlur).                                          *)
(***************************************************************************)
\* C38: of the runs of process for one collection, however interleaved, at
\* most one invokes updateBlurRoyalties while the lock key that an
\* invocation was made under has not expired.
C38_OncePerLock ==
  \A i, j \in 1..Len(worker.royalties) :
    i < j => worker.royalties[j].at >= worker.royalties[i].lockUntil

====
